---- MODULE Spec2Model ----
(***************************************************************************)
(* Verification model of the biz-design backend.                           *)
(*                                                                         *)
(*   Spec    staged account deletion (AccountDeletionService): the         *)
(*           database tables, the deletion_metadata attribute carried by   *)
(*           the in-memory User instance, the deletion_request dicts that  *)
(*           initiate_deletion_request returns, and a clock in days.       *)
(*   SpecRL  APILimiter sliding-window rate limiting against the Redis     *)
(*           sorted set, with a clock in seconds.                          *)
(*   SpecQuota, SpecPeek, SpecTier, SpecReset                              *)
(*           APILimiter with any of the three strategies, one call at a    *)
(*           time: check_rate_limit alone, beside get_rate_limit_info,     *)
(*           with or without a Redis client, and beside reset_rate_limit.  *)
(*   SpecConc     two requests inside check_rate_limit at once, each Redis *)
(*           command or pipeline being one step.                           *)
(*   SpecSched    ReviewSchedulerService.schedule_reviews_for_output and   *)
(*           the notification queue, with a clock in days.                 *)
(*   SpecNotify   the scheduler beside process_notifications and           *)
(*           cancel_scheduled_notifications of NotificationService.        *)
(*   SpecStatus, SpecApi                                                   *)
(*           the deletion service beside get_deletion_status, and beside   *)
(*           the cancel endpoint reached through get_current_active_user.  *)
(*   SpecAdaptive, SpecReview, SpecReviewConc                              *)
(*           ReviewProgressService.record_review_session alone, beside the *)
(*           review schedule of ReviewSchedulerService, and with two       *)
(*           requests recording a session at once.                         *)
(*   SpecQueue    NotificationQueueService: enqueue_notification and two   *)
(*           workers inside process_delayed_notifications.                 *)
(*   SpecVersions OutputService and OutputVersionService: the versions     *)
(*           kept for one output.                                          *)
(***************************************************************************)
EXTENDS Integers, FiniteSets, Sequences, TLC

VARIABLES
    now,         \* datetime.utcnow(), in days
    db,          \* committed contents of the database tables
    meta,        \* user.deletion_metadata of the User instance held in memory
    requests,    \* the deletion_request dicts handed out, by deletion_id
    cancelled,   \* deletion ids for which cancel_deletion_request returned True
    lastOp,      \* the step just taken and what it returned or raised
    lastCall,    \* the most recent service call (clock and session steps excluded)
    clock,       \* time.time(), in seconds
    zsets,       \* Redis sorted sets rate_limit:sliding:{user}:{endpoint}
    ttl,         \* Redis expiry instant of each key
    grants,      \* log of the calls that were allowed: <<key, time, weight>>
    rlOp,        \* the limiter call just made and its outcome
    strategy,    \* APILimiter.strategy
    redis,       \* whether APILimiter.redis is a client (TRUE) or None
    decode,      \* decode_responses of the Redis client
    fixed,       \* Redis counters rate_limit:fixed:{user}:{endpoint}:{window_start}
    buckets,     \* Redis hashes rate_limit:bucket:{user}:{endpoint}
    pc,          \* where each in-flight request stands inside check_rate_limit
    loc,         \* the local variables of each in-flight request
    today,       \* datetime.utcnow() of the review scheduler, in days
    queue,       \* notifications enqueued by NotificationService
    history,     \* NotificationHistory rows stored by NotificationService
    schedOp,     \* the scheduler call just made and what it returned
    output,      \* the user_outputs row whose reviews are tracked
    revOp,       \* the review call just made and what it returned
    rpc,         \* where each in-flight request stands inside record_review_session
    rloc,        \* the output loaded by the Session of each in-flight request
    delayed,     \* Redis sorted set delayed_email_queue: payloads with their scores
    immediate,   \* Redis list email_queue:priority_2, head first
    enq,         \* number of enqueue_notification calls made
    wpc,         \* where each worker stands inside process_delayed_notifications
    wloc,        \* ready_notifications still to be moved by each worker
    sent,        \* ids of the notifications handed to a provider that sent them
    created,     \* whether the user_outputs row whose versions are kept exists
    versions,    \* the output_versions rows of that output
    verOp        \* the version call just made and what it returned

delVars == <<now, db, meta, requests, cancelled, lastOp, lastCall>>
rlVars == <<clock, zsets, ttl, grants, rlOp>>
limVars == <<strategy, redis, decode, fixed, buckets>>
concVars == <<pc, loc>>
schedVars == <<today, queue, history, schedOp>>
revVars == <<output, revOp, rpc, rloc>>
dqVars == <<delayed, immediate, enq, wpc, wloc>>
ntfVars == <<sent>>
verVars == <<created, versions, verOp>>
appVars == <<revVars, dqVars, ntfVars, verVars>>
otherVars == <<rlVars, limVars, concVars, schedVars, appVars>>
vars == <<now, db, meta, requests, cancelled, lastOp, lastCall,
          clock, zsets, ttl, grants, rlOp,
          strategy, redis, decode, fixed, buckets, pc, loc,
          today, queue, history, schedOp,
          output, revOp, rpc, rloc,
          delayed, immediate, enq, wpc, wloc, sent,
          created, versions, verOp>>

----------------------------------------------------------------------------
(* Bounds *)

MaxTime == 45       \* the clock stops here (days)
DayStep == 15       \* days between two observations of the clock
MaxRequests == 2    \* deletion requests created
MaxClock == 6       \* the limiter's clock stops here (seconds)
MaxCalls == 3       \* limiter calls allowed
LimitN == 2         \* max_requests of the tier and endpoint
WindowW == 3        \* window_seconds of the tier and endpoint
MaxDay == 31        \* the scheduler's clock stops here (days)
MaxQueued == 2      \* reviews are scheduled while fewer notifications were queued
MaxSessions == 4    \* review sessions (and review completions) recorded per output
MaxReviewDay == 8   \* the clock of the review tracking stops here (days)
MaxNotifs == 3      \* notifications enqueued on the email queue
MaxQueueDay == 2    \* the clock of the notification queue stops here (days)
MaxVersionNumber == 12  \* versions are created up to this version_number

----------------------------------------------------------------------------
(* Program constants of the deletion service *)

AnonymizeAfterDays == 1
HardDeleteAfterDays == 30
CancellableDays == 30
RetentionDays == 180

REQUESTED == "requested"
SOFT_DELETED == "soft_deleted"
ANONYMIZED == "anonymized"
HARD_DELETED == "hard_deleted"
CANCELLED == "cancelled"

DeletionStage == {REQUESTED, SOFT_DELETED, ANONYMIZED, HARD_DELETED, CANCELLED}

None == "None"

\* a dict with no keys: the instance carries no deletion_metadata
NoMeta == [k \in {} |-> None]

UserIds == {"u1", "u2"}

\* Columns of the NotificationHistory model
NotificationHistoryColumns ==
    {"id", "user_id", "notification_type", "delivery_channel", "content",
     "scheduled_at", "sent_at", "status"}

----------------------------------------------------------------------------
(* JSON helpers: a dict is a function from keys to values *)

DictGet(d, k, default) == IF k \in DOMAIN d THEN d[k] ELSE default

DictPop(d, ks) == [k \in (DOMAIN d) \ ks |-> d[k]]

DictSet(d, k, v) == [x \in (DOMAIN d) \cup {k} |-> IF x = k THEN v ELSE d[x]]

----------------------------------------------------------------------------
(* Database *)

UserRow(email, hash, active, deleted, at) ==
    [email |-> email, password_hash |-> hash, is_active |-> active,
     is_deleted |-> deleted, deleted_at |-> at]

InitDb ==
    [users |-> [u \in {"u1"} |-> UserRow("u1@example.com", "hash", TRUE, FALSE, <<>>)],
     user_outputs |->
        {[id |-> "o1", user_id |-> "u1",
          output_data |-> [company_name |-> "Acme", personal_notes |-> "mine",
                           framework |-> "swot"]]},
     output_versions |-> {[id |-> "v1", output_id |-> "o1"]},
     company_profiles |->
        {[id |-> "p1", user_id |-> "u1", profile_name |-> "Main",
          profile_data |-> [company_name |-> "Acme", email |-> "ceo@acme.com"]],
         [id |-> "p2", user_id |-> "u1", profile_name |-> "Side",
          profile_data |-> [company_name |-> "Acme", description |-> "shop",
                            owner_details |-> "me"]]},
     user_progress |-> {[id |-> "g1", user_id |-> "u1"]},
     user_learning_sessions |->
        {[id |-> "s1", user_id |-> "u1",
          learning_data |-> [personal_notes |-> "mine", score |-> "80"]]},
     notification_preferences |-> {[id |-> "f1", user_id |-> "u1"]},
     notification_history |->
        {[id |-> "n1", user_id |-> "u1", scheduled_at |-> 0 - 200,
          content |-> [type |-> "review", body |-> "hello"]],
         [id |-> "n2", user_id |-> "u1", scheduled_at |-> 0 - 10,
          content |-> [type |-> "badge", body |-> "hello"]]},
     user_badges |-> {[id |-> "b1", user_id |-> "u1"]}]

UserExists(d, u) == u \in DOMAIN d.users

\* deletion_metadata.get(key)
MetaGet(m, k) == DictGet(m, k, None)

RequestDict(id, u, t) ==
    [deletion_id |-> id, user_id |-> u, stage |-> REQUESTED,
     requested_at |-> t, cancellable_until |-> t + CancellableDays]

\* str(uuid.uuid4()): a fresh identifier
NextDeletionId == "d" \o ToString(Cardinality(DOMAIN requests) + 1)

Op(op, u, id, res, fault) ==
    [op |-> op, user |-> u, id |-> id, result |-> res, fault |-> fault]

----------------------------------------------------------------------------
(* Anonymization helpers *)

SensitiveFields ==
    {"email", "phone", "address", "ssn", "tax_id", "personal_contacts", "financial_data"}

ContainsSensitiveData(profile_data) == (DOMAIN profile_data) \cap SensitiveFields # {}

AnonymizeProfileData(profile_data, t) ==
    LET a == [k \in DOMAIN profile_data |->
                 IF k = "company_name" THEN "Anonymized Company"
                 ELSE IF k = "description" THEN "[ANONYMIZED]"
                 ELSE profile_data[k]]
        b == DictPop(a, {"contact_info", "owner_details", "financial_info"})
    IN  DictSet(DictSet(b, "anonymized", "True"), "anonymized_at", ToString(t))

AnonymizeUserOutputs(outs, u) ==
    {IF o.user_id = u
     THEN [o EXCEPT !.output_data =
             [k \in DOMAIN o.output_data |->
                 IF k = "company_name" THEN "Anonymized Company"
                 ELSE IF k = "personal_notes" THEN "[ANONYMIZED]"
                 ELSE o.output_data[k]]]
     ELSE o : o \in outs}

AnonymizeLearningSessions(ss, u) ==
    {IF s.user_id = u
     THEN [s EXCEPT !.learning_data =
             DictPop(s.learning_data, {"personal_notes", "company_specific_examples"})]
     ELSE s : s \in ss}

AnonymizeNotificationHistory(ns, u) ==
    {IF n.user_id = u
     THEN [n EXCEPT !.content =
             [type |-> DictGet(n.content, "type", "unknown"),
              timestamp |-> DictGet(n.content, "timestamp", None),
              anonymized |-> "True"]]
     ELSE n : n \in ns}

AnonymizeCompanyProfiles(ps, u, t) ==
    {IF p.user_id = u
     THEN [p EXCEPT !.profile_name = "Anonymized Profile " \o p.id,
                    !.profile_data = AnonymizeProfileData(p.profile_data, t)]
     ELSE p : p \in {q \in ps : ~(q.user_id = u /\ ContainsSensitiveData(q.profile_data))}}

AnonymizedDb(d, u, t) ==
    [d EXCEPT !.users[u].email = "deleted_user_" \o u \o "@anonymized.local",
              !.users[u].password_hash = "ANONYMIZED",
              !.user_outputs = AnonymizeUserOutputs(d.user_outputs, u),
              !.user_learning_sessions = AnonymizeLearningSessions(d.user_learning_sessions, u),
              !.notification_history = AnonymizeNotificationHistory(d.notification_history, u),
              !.company_profiles = AnonymizeCompanyProfiles(d.company_profiles, u, t)]

----------------------------------------------------------------------------
(* Hard deletion helpers *)

\* NotificationHistory.created_at: the class attribute lookup raises
\* AttributeError when the model has no such column
HasColumn(col) == col \in NotificationHistoryColumns

OldNotifications(ns, u, col, cutoff) ==
    {n \in ns : n.user_id = u /\ n[col] < cutoff}

HardDeletedDb(d, u, t) ==
    [d EXCEPT !.user_outputs = {o \in d.user_outputs : o.user_id # u},
              !.company_profiles = {p \in d.company_profiles : p.user_id # u},
              !.user_progress = {g \in d.user_progress : g.user_id # u},
              !.user_learning_sessions = {s \in d.user_learning_sessions : s.user_id # u},
              !.notification_preferences = {f \in d.notification_preferences : f.user_id # u},
              !.notification_history =
                  d.notification_history \
                      OldNotifications(d.notification_history, u, "created_at", t - RetentionDays),
              !.user_badges = {b \in d.user_badges : b.user_id # u},
              !.users = [x \in (DOMAIN d.users) \ {u} |-> d.users[x]]]

----------------------------------------------------------------------------
(* Rate limiter state *)

RLKeys == {<<"u1", "general_api">>}

Weights == {1}

\* RateLimitStrategy
SLIDING_WINDOW == "sliding_window"
FIXED_WINDOW == "fixed_window"
TOKEN_BUCKET == "token_bucket"

RateLimitStrategy == {SLIDING_WINDOW, FIXED_WINDOW, TOKEN_BUCKET}

\* the user ids, endpoint types and request weights of the limiter calls
RLUsers == {"u1", "u2"}

EndpointTypes == {"general_api", "auth", "ai_copilot"}

StoreKeys == RLUsers \X EndpointTypes

RequestWeights == {1, 2}

\* APILimiter.rate_limits for the free tier, with the quotas and windows scaled
\* down to LimitN requests per WindowW seconds; ai_copilot keeps its quota of 0
RateLimits ==
    [free |-> [general_api |-> [requests |-> LimitN, window |-> WindowW],
               ai_copilot |-> [requests |-> 0, window |-> WindowW],
               auth |-> [requests |-> LimitN, window |-> WindowW]]]

\* self.rate_limits.get(subscription_tier, {}).get(endpoint_type)
LimitConfig(tier, e) == RateLimits[tier][e]

\* if not limit_config
NoLimitConfig(tier, e) ==
    ~(tier \in DOMAIN RateLimits /\ e \in DOMAIN RateLimits[tier])

EmptyDict == [x \in {} |-> None]

RlOp(op, key, w, res, retry) ==
    [op |-> op, key |-> key, weight |-> w, result |-> res, retry_after |-> retry]

----------------------------------------------------------------------------
(* Staged account deletion *)

InitDel ==
    /\ now = 0
    /\ db = InitDb
    /\ meta = [u \in UserIds |-> NoMeta]
    /\ requests = [i \in {} |-> None]
    /\ cancelled = {}
    /\ lastOp = Op("init", None, None, None, FALSE)
    /\ lastCall = Op("init", None, None, None, FALSE)

\* an empty Redis and no limiter call made yet
InitStore ==
    /\ clock = 0
    /\ zsets = [k \in StoreKeys |-> {}]
    /\ ttl = [k \in StoreKeys |-> 0]
    /\ grants = <<>>
    /\ rlOp = RlOp("init", None, 0, None, 0)
    /\ fixed = EmptyDict
    /\ buckets = EmptyDict

\* the requests that can be inside check_rate_limit at the same time
Procs == {"p1", "p2"}

\* no request is inside check_rate_limit
InitConc ==
    /\ pc = [p \in Procs |-> "idle"]
    /\ loc = [p \in Procs |-> None]

\* DeliveryChannel
EMAIL == "email"
PUSH == "push"
IN_APP == "in_app"

\* the notification_preferences row of the user: none, or email_enabled,
\* push_enabled and the JSON reminder_settings, which is NULL ("null"), a dict
\* without 'review_reminders' ("unset") or {'review_reminders': False} ("off")
NoPrefs ==
    [exists |-> FALSE, email_enabled |-> TRUE, push_enabled |-> TRUE,
     reminder_settings |-> "null"]

UserPrefs ==
    {NoPrefs} \cup [exists : {TRUE}, email_enabled : BOOLEAN, push_enabled : BOOLEAN,
                    reminder_settings : {"null", "unset", "off"}]

\* output.updated_at of the outputs that get scheduled
Completions == {0, 1}

SchedOp(op, completion, prefs, res, ids) ==
    [op |-> op, completion |-> completion, prefs |-> prefs, result |-> res,
     notification_ids |-> ids]

\* nothing scheduled yet
InitSched ==
    /\ today = 0
    /\ queue = {}
    /\ history = {}
    /\ schedOp = SchedOp("init", 0, NoPrefs, None, <<>>)

\* completion_percentage of a session sent without per-content scores, which
\* _calculate_overall_score returns as the overall score
Scores == {55, 65, 75, 85, 95}

\* the scores used where the clock moves as well
FewScores == {55, 95}

\* review_score of process_review_completion
ReviewScores == {50, 90}

RevOp(op, score, next_review, used, upcoming, overdue) ==
    [op |-> op, score |-> score, next_review |-> next_review, used |-> used,
     upcoming |-> upcoming, overdue |-> overdue]

\* one output, completed at day 0 and never reviewed; no request in flight
InitReview ==
    /\ output = [updated_at |-> 0, review_sessions |-> <<>>, reviews |-> <<>>]
    /\ revOp = RevOp("init", 0, 0, <<>>, {}, {})
    /\ rpc = [p \in Procs |-> "idle"]
    /\ rloc = [p \in Procs |-> None]

\* NotificationQueueService over an empty Redis, no worker running
InitQueue ==
    /\ delayed = {}
    /\ immediate = <<>>
    /\ enq = 0
    /\ wpc = [p \in Procs |-> "idle"]
    /\ wloc = [p \in Procs |-> <<>>]

VerOp(op, result, version) == [op |-> op, result |-> result, version |-> version]

\* no output created yet, hence no version of it
InitVersions ==
    /\ created = FALSE
    /\ versions = {}
    /\ verOp = VerOp("init", "returned", 0)

InitApp == InitReview /\ InitQueue /\ sent = {} /\ InitVersions

\* APILimiter(redis_client) over an empty Redis: the default strategy
InitRL ==
    /\ InitStore
    /\ strategy = SLIDING_WINDOW
    /\ redis = TRUE
    /\ decode = TRUE
    /\ InitConc

Init == InitDel /\ InitRL /\ InitSched /\ InitApp

\* _execute_soft_deletion as called by initiate_deletion_request: the metadata
\* is attached to the instance before the commit; fault = the commit raises
ExecuteSoftDeletion(u, req, fault) ==
    /\ meta' = [meta EXCEPT ![u] = [deletion_id |-> req.deletion_id, stage |-> SOFT_DELETED]]
    /\ IF fault
       THEN /\ db' = db
            /\ requests' = [i \in (DOMAIN requests) \cup {req.deletion_id} |->
                              IF i = req.deletion_id THEN req ELSE requests[i]]
       ELSE /\ db' = [db EXCEPT !.users[u].is_deleted = TRUE,
                                !.users[u].is_active = FALSE,
                                !.users[u].deleted_at = <<now>>]
            /\ requests' = [i \in (DOMAIN requests) \cup {req.deletion_id} |->
                              IF i = req.deletion_id
                              THEN [req EXCEPT !.stage = SOFT_DELETED]
                              ELSE requests[i]]

InitiateDeletionRequest(u, fault) ==
    /\ IF ~UserExists(db, u)
       THEN /\ lastOp' = Op("initiate", u, None, "User not found", FALSE)
            /\ UNCHANGED <<db, meta, requests>>
       ELSE IF db.users[u].is_deleted
       THEN /\ lastOp' = Op("initiate", u, None, "User account already marked for deletion", FALSE)
            /\ UNCHANGED <<db, meta, requests>>
       ELSE /\ Cardinality(DOMAIN requests) < MaxRequests
            /\ ExecuteSoftDeletion(u, RequestDict(NextDeletionId, u, now), fault)
            /\ lastOp' = Op("initiate", u, NextDeletionId, "returned", fault)
    /\ lastCall' = lastOp'
    /\ UNCHANGED <<now, cancelled, otherVars>>

\* _execute_anonymization, run by the task scheduled one day after the request
ExecuteAnonymization(id, fault) ==
    /\ id \in DOMAIN requests
    /\ now >= requests[id].requested_at + AnonymizeAfterDays
    /\ LET u == requests[id].user_id IN
       IF ~UserExists(db, u)
       THEN /\ lastOp' = Op("anonymize", u, id, "False", FALSE)
            /\ UNCHANGED <<db, meta, requests>>
       ELSE /\ meta' = IF meta[u] # NoMeta
                       THEN [meta EXCEPT ![u] = DictSet(meta[u], "stage", ANONYMIZED)]
                       ELSE meta
            /\ IF fault
               THEN /\ lastOp' = Op("anonymize", u, id, "False", fault)
                    /\ UNCHANGED <<db, requests>>
               ELSE /\ db' = AnonymizedDb(db, u, now)
                    /\ requests' = [requests EXCEPT ![id].stage = ANONYMIZED]
                    /\ lastOp' = Op("anonymize", u, id, "True", fault)
    /\ lastCall' = lastOp'
    /\ UNCHANGED <<now, cancelled, otherVars>>

\* _execute_hard_deletion, run by the task scheduled thirty days after the request
ExecuteHardDeletion(id, fault) ==
    /\ id \in DOMAIN requests
    /\ now >= requests[id].requested_at + HardDeleteAfterDays
    /\ LET u == requests[id].user_id IN
       IF ~HasColumn("created_at") \/ fault
       THEN /\ lastOp' = Op("hard_delete", u, id, "False", fault)
            /\ UNCHANGED <<db, requests>>
       ELSE /\ db' = HardDeletedDb(db, u, now)
            /\ requests' = [requests EXCEPT ![id].stage = HARD_DELETED]
            /\ lastOp' = Op("hard_delete", u, id, "True", fault)
    /\ lastCall' = lastOp'
    /\ UNCHANGED <<now, meta, cancelled, otherVars>>

CancelDeletionRequest(u, id, fault) ==
    /\ IF ~UserExists(db, u)
       THEN /\ lastOp' = Op("cancel", u, id, "User not found", FALSE)
            /\ UNCHANGED <<db, meta, cancelled>>
       ELSE IF meta[u] = NoMeta
       THEN /\ lastOp' = Op("cancel", u, id, "No active deletion request found", FALSE)
            /\ UNCHANGED <<db, meta, cancelled>>
       ELSE IF MetaGet(meta[u], "deletion_id") # id
       THEN /\ lastOp' = Op("cancel", u, id, "Invalid deletion ID", FALSE)
            /\ UNCHANGED <<db, meta, cancelled>>
       ELSE IF MetaGet(meta[u], "stage") \notin {REQUESTED, SOFT_DELETED}
       THEN /\ lastOp' = Op("cancel", u, id, "Deletion cannot be cancelled at this stage", FALSE)
            /\ UNCHANGED <<db, meta, cancelled>>
       ELSE IF /\ "cancellable_until" \in DOMAIN meta[u]
               /\ now > meta[u]["cancellable_until"]
       THEN /\ lastOp' = Op("cancel", u, id, "Cancellation deadline has passed", FALSE)
            /\ UNCHANGED <<db, meta, cancelled>>
       ELSE /\ meta' = [meta EXCEPT ![u] = DictSet(meta[u], "stage", CANCELLED)]
            /\ IF fault
               THEN /\ lastOp' = Op("cancel", u, id, "False", fault)
                    /\ UNCHANGED <<db, cancelled>>
               ELSE /\ db' = [db EXCEPT !.users[u].is_deleted = FALSE,
                                        !.users[u].is_active = TRUE,
                                        !.users[u].deleted_at = <<>>]
                    /\ cancelled' = cancelled \cup {id}
                    /\ lastOp' = Op("cancel", u, id, "True", fault)
    /\ lastCall' = lastOp'
    /\ UNCHANGED <<now, requests, otherVars>>

\* The Session is closed (one Session per HTTP request) or the User instance is
\* no longer referenced: the next query builds a fresh instance from the row,
\* which carries no deletion_metadata attribute
ReleaseInstance(u) ==
    /\ meta[u] # NoMeta
    /\ meta' = [meta EXCEPT ![u] = NoMeta]
    /\ lastOp' = Op("release", u, None, None, FALSE)
    /\ UNCHANGED <<now, db, requests, cancelled, lastCall, otherVars>>

Tick ==
    /\ now + DayStep <= MaxTime
    /\ now' = now + DayStep
    /\ lastOp' = Op("tick", None, None, None, FALSE)
    /\ UNCHANGED <<db, meta, requests, cancelled, lastCall, otherVars>>

Next ==
    \/ \E u \in UserIds, fault \in BOOLEAN : InitiateDeletionRequest(u, fault)
    \/ \E id \in DOMAIN requests, fault \in BOOLEAN : ExecuteAnonymization(id, fault)
    \/ \E id \in DOMAIN requests, fault \in BOOLEAN : ExecuteHardDeletion(id, fault)
    \/ \E u \in UserIds, id \in DOMAIN requests, fault \in BOOLEAN :
          CancelDeletionRequest(u, id, fault)
    \/ \E u \in UserIds : ReleaseInstance(u)
    \/ Tick

Spec == Init /\ [][Next]_vars

\* AccountDeletionService._can_cancel_deletion(deletion_metadata)
CanCancelDeletion(deletion_metadata) ==
    IF MetaGet(deletion_metadata, "stage") \notin {REQUESTED, SOFT_DELETED} THEN FALSE
    ELSE IF "cancellable_until" \notin DOMAIN deletion_metadata THEN FALSE
    ELSE now < deletion_metadata["cancellable_until"]

\* AccountDeletionService.get_deletion_status(user_id): the result is None,
\* the 'active' dict, or the dict of a deletion in progress, of which
\* deletion_id and can_cancel are kept
GetDeletionStatus(u) ==
    /\ lastOp' = IF ~UserExists(db, u) THEN Op("status", u, None, None, FALSE)
                 ELSE IF ~db.users[u].is_deleted THEN Op("status", u, None, "active", FALSE)
                 ELSE Op("status", u, MetaGet(meta[u], "deletion_id"),
                         IF CanCancelDeletion(meta[u]) THEN "can_cancel" ELSE "cannot_cancel",
                         FALSE)
    /\ lastCall' = lastOp'
    /\ UNCHANGED <<now, db, meta, requests, cancelled, otherVars>>

\* the checks that cancel_deletion_request makes before it restores the
\* account: none of them raises
CancelAccepted(u, id) ==
    /\ UserExists(db, u)
    /\ meta[u] # NoMeta
    /\ MetaGet(meta[u], "deletion_id") = id
    /\ MetaGet(meta[u], "stage") \in {REQUESTED, SOFT_DELETED}
    /\ ~("cancellable_until" \in DOMAIN meta[u] /\ now > meta[u]["cancellable_until"])

\* the email that decode_token finds in the access token issued to u
TokenEmail(u) == u \o "@example.com"

\* AuthService.get_user_by_email(db, email): the active, not deleted users
\* of that email
GetUserByEmail(d, email) ==
    {u \in DOMAIN d.users : /\ d.users[u].email = email
                            /\ d.users[u].is_active
                            /\ ~d.users[u].is_deleted}

\* POST /users/cancel-deletion/{deletion_id} with the access token of u:
\* get_current_user, get_current_active_user, then cancel_deletion_request on
\* the User instance that the Session of this request has just loaded, which
\* carries no deletion_metadata
CancelAccountDeletion(u, deletion_id) ==
    /\ lastOp' = IF GetUserByEmail(db, TokenEmail(u)) = {}
                 THEN Op("api_cancel", u, deletion_id, "401 User not found", FALSE)
                 ELSE IF \E x \in GetUserByEmail(db, TokenEmail(u)) : ~db.users[x].is_active
                 THEN Op("api_cancel", u, deletion_id, "400 Inactive user", FALSE)
                 ELSE Op("api_cancel", u, deletion_id,
                         "500 No active deletion request found", FALSE)
    /\ lastCall' = lastOp'
    /\ UNCHANGED <<now, db, meta, requests, cancelled, otherVars>>

NextApi ==
    \/ Next
    \/ \E u \in UserIds, id \in DOMAIN requests : CancelAccountDeletion(u, id)

SpecApi == Init /\ [][NextApi]_vars

NextStatus ==
    \/ Next
    \/ \E u \in UserIds : GetDeletionStatus(u)

SpecStatus == Init /\ [][NextStatus]_vars

----------------------------------------------------------------------------
(* Rate limiting: sliding window *)

\* a key whose expiry instant has passed no longer exists
ZLive(k) == IF clock >= ttl[k] THEN {} ELSE zsets[k]

\* request_id = f"{now}:{request_weight}", stored with score now
Member(t, w) == [t |-> t, w |-> w]

\* zremrangebyscore(key, 0, max): drops the members with 0 <= score <= max
ZRemRangeByScore(z, lo, hi) == {m \in z : ~(lo <= m.t /\ m.t <= hi)}

\* zrange(key, 0, 0, withscores=True): the score of the lowest member
OldestScore(z) == CHOOSE t \in {m.t : m \in z} : \A m \in z : t <= m.t

RateLimitError == "RateLimitError"
Allowed == "allowed"

\* APILimiter._check_sliding_window(user_id, endpoint_type, max_requests,
\* window_seconds, request_weight)
CheckSlidingWindow(k, max_requests, window_seconds, w) ==
    /\ Len(grants) < MaxCalls
    /\ LET pruned == ZRemRangeByScore(ZLive(k), 0, clock - window_seconds)
           current_count == Cardinality(pruned)
           request_id == Member(clock, w)
           added == pruned \cup {request_id}
       IN  IF current_count + w > max_requests
           THEN LET left == added \ {request_id}
                    retry_after == IF left # {}
                                   THEN OldestScore(left) + window_seconds - clock
                                   ELSE window_seconds
                IN  /\ zsets' = [zsets EXCEPT ![k] = left]
                    /\ ttl' = [ttl EXCEPT ![k] = IF left = {} THEN 0
                                                  ELSE clock + window_seconds]
                    /\ rlOp' = RlOp("sliding", k, w, RateLimitError, retry_after)
                    /\ grants' = grants
           ELSE /\ zsets' = [zsets EXCEPT ![k] = added]
                /\ ttl' = [ttl EXCEPT ![k] = clock + window_seconds]
                /\ rlOp' = RlOp("sliding", k, w, Allowed, 0)
                /\ grants' = Append(grants, <<k, clock, w>>)
    /\ UNCHANGED <<clock, delVars, appVars, limVars, concVars, schedVars>>

\* Redis drops the keys whose expiry instant t has been reached
Expire(d, t) == [x \in {y \in DOMAIN d : d[y].exp > t} |-> d[x]]

RLTick ==
    /\ clock < MaxClock
    /\ clock' = clock + 1
    /\ rlOp' = RlOp("tick", None, 0, None, 0)
    /\ fixed' = Expire(fixed, clock + 1)
    /\ buckets' = Expire(buckets, clock + 1)
    /\ UNCHANGED <<zsets, ttl, grants, delVars, appVars, strategy, redis, decode,
                   concVars, schedVars>>

NextRL ==
    \/ \E k \in RLKeys, w \in Weights : CheckSlidingWindow(k, LimitN, WindowW, w)
    \/ RLTick

SpecRL == Init /\ [][NextRL]_vars

----------------------------------------------------------------------------
(* Rate limiting: fixed window and token bucket *)

Min(a, b) == IF a <= b THEN a ELSE b

Max(a, b) == IF a >= b THEN a ELSE b

\* window_start = int(now // window_seconds) * window_seconds
WindowStart(t, window_seconds) == (t \div window_seconds) * window_seconds

\* key = f"rate_limit:fixed:{user_id}:{endpoint_type}:{window_start}"
FixedKey(k, window_start) == <<k[1], k[2], window_start>>

\* current_count = self.redis.get(key); int(current_count) if current_count else 0
FixedGet(f, key) == IF key \in DOMAIN f THEN f[key].n ELSE 0

\* APILimiter._check_fixed_window(user_id, endpoint_type, max_requests,
\* window_seconds, request_weight)
CheckFixedWindow(k, max_requests, window_seconds, w) ==
    /\ Len(grants) < MaxCalls
    /\ LET window_start == WindowStart(clock, window_seconds)
           key == FixedKey(k, window_start)
           current_count == FixedGet(fixed, key)
       IN  IF current_count + w > max_requests
           THEN /\ rlOp' = RlOp("fixed", k, w, RateLimitError,
                                window_start + window_seconds - clock)
                /\ UNCHANGED <<fixed, grants>>
           ELSE /\ fixed' = DictSet(fixed, key, [n |-> FixedGet(fixed, key) + w,
                                                 exp |-> clock + window_seconds])
                /\ rlOp' = RlOp("fixed", k, w, Allowed, 0)
                /\ grants' = Append(grants, <<k, clock, w>>)
    /\ UNCHANGED <<clock, zsets, ttl, buckets, strategy, redis, decode,
                   delVars, appVars, concVars, schedVars>>

\* Token counts are kept multiplied by window_seconds, so that the refill
\* elapsed * max_requests / window_seconds is an integer; the float arithmetic
\* of the code is taken as exact.
\* tokens = float(bucket_data.get(b'tokens', max_requests)): a client with
\* decode_responses=True returns str keys, so the lookup of b'tokens' misses
BucketTokens(b, k, max_requests, window_seconds, dec) ==
    IF k \in DOMAIN b /\ ~dec THEN b[k].tokens ELSE max_requests * window_seconds

\* last_refill = float(bucket_data.get(b'last_refill', now))
BucketLastRefill(b, k, t, dec) ==
    IF k \in DOMAIN b /\ ~dec THEN b[k].last_refill ELSE t

\* new_tokens = min(max_requests, tokens + (elapsed * refill_rate))
NewTokens(b, k, t, max_requests, window_seconds, dec) ==
    Min(max_requests * window_seconds,
        BucketTokens(b, k, max_requests, window_seconds, dec)
          + (t - BucketLastRefill(b, k, t, dec)) * max_requests)

\* APILimiter._check_token_bucket(user_id, endpoint_type, max_requests,
\* window_seconds, request_weight)
CheckTokenBucket(k, max_requests, window_seconds, w) ==
    /\ Len(grants) < MaxCalls
    /\ LET new_tokens == NewTokens(buckets, k, clock, max_requests, window_seconds, decode)
           tokens_needed == w * window_seconds - new_tokens
       IN  IF new_tokens < w * window_seconds
           THEN /\ rlOp' = RlOp("bucket", k, w, RateLimitError,
                                tokens_needed \div max_requests)
                /\ UNCHANGED <<buckets, grants>>
           ELSE /\ buckets' = DictSet(buckets, k,
                                  [tokens |-> new_tokens - w * window_seconds,
                                   last_refill |-> clock,
                                   exp |-> clock + 2 * window_seconds])
                /\ rlOp' = RlOp("bucket", k, w, Allowed, 0)
                /\ grants' = Append(grants, <<k, clock, w>>)
    /\ UNCHANGED <<clock, zsets, ttl, fixed, strategy, redis, decode,
                   delVars, appVars, concVars, schedVars>>

----------------------------------------------------------------------------
(* Rate limiting: the public calls of APILimiter *)

PremiumAccessError == "PremiumAccessError"
HTTPException403 == "HTTPException403"

\* APILimiter.check_rate_limit(user_id, subscription_tier, endpoint_type,
\* request_weight)
CheckRateLimit(u, tier, e, w) ==
    LET k == <<u, e>>
        limit_config == LimitConfig(tier, e)
    IN  IF ~redis
        THEN /\ Len(grants) < MaxCalls
             /\ rlOp' = RlOp("check", k, w, Allowed, 0)
             /\ grants' = Append(grants, <<k, clock, w>>)
             /\ UNCHANGED <<clock, zsets, ttl, limVars, delVars, appVars, concVars, schedVars>>
        ELSE IF NoLimitConfig(tier, e)
        THEN /\ rlOp' = RlOp("check", k, w, HTTPException403, 0)
             /\ UNCHANGED <<clock, zsets, ttl, grants, limVars, delVars, appVars,
                            concVars, schedVars>>
        ELSE IF limit_config.requests = 0
        THEN /\ rlOp' = RlOp("check", k, w, PremiumAccessError, 0)
             /\ UNCHANGED <<clock, zsets, ttl, grants, limVars, delVars, appVars,
                            concVars, schedVars>>
        ELSE IF strategy = SLIDING_WINDOW
        THEN CheckSlidingWindow(k, limit_config.requests, limit_config.window, w)
        ELSE IF strategy = FIXED_WINDOW
        THEN CheckFixedWindow(k, limit_config.requests, limit_config.window, w)
        ELSE CheckTokenBucket(k, limit_config.requests, limit_config.window, w)

\* the dict returned by get_rate_limit_info
RlInfo(k, remaining, res) ==
    [op |-> "info", key |-> k, weight |-> 0, result |-> res, retry_after |-> 0,
     remaining |-> remaining]

\* get_rate_limit_info with zremrangebyscore(key, 0, now): the cleaning drops the
\* entries that are still inside the window as well
GetRateLimitInfo_DropsAll(u, tier, e) ==
    /\ LET k == <<u, e>>
           limit_config == LimitConfig(tier, e)
       IN  IF ~redis \/ NoLimitConfig(tier, e)
           THEN /\ rlOp' = RlInfo(k, 0, "error")
                /\ UNCHANGED <<zsets, ttl>>
           ELSE LET max_requests == limit_config.requests
                    window_seconds == limit_config.window
                IN  IF strategy = SLIDING_WINDOW
                    THEN LET pruned == ZRemRangeByScore(ZLive(k), 0, clock)
                             current_count == Cardinality(pruned)
                         IN  /\ zsets' = [zsets EXCEPT ![k] = pruned]
                             /\ ttl' = [ttl EXCEPT ![k] = IF pruned = {} THEN 0 ELSE ttl[k]]
                             /\ rlOp' = RlInfo(k, Max(0, max_requests - current_count), "info")
                    ELSE IF strategy = FIXED_WINDOW
                    THEN LET key == FixedKey(k, WindowStart(clock, window_seconds))
                             current_count == FixedGet(fixed, key)
                         IN  /\ rlOp' = RlInfo(k, Max(0, max_requests - current_count), "info")
                             /\ UNCHANGED <<zsets, ttl>>
                    ELSE IF max_requests = 0
                    THEN /\ rlOp' = RlInfo(k, 0, "ZeroDivisionError")
                         /\ UNCHANGED <<zsets, ttl>>
                    ELSE LET current_tokens ==
                                 IF k \in DOMAIN buckets
                                 THEN NewTokens(buckets, k, clock, max_requests,
                                                window_seconds, decode)
                                 ELSE max_requests * window_seconds
                         IN  /\ rlOp' = RlInfo(k, current_tokens \div window_seconds, "info")
                             /\ UNCHANGED <<zsets, ttl>>
    /\ UNCHANGED <<clock, grants, limVars, delVars, appVars, concVars, schedVars>>

\* APILimiter.get_rate_limit_info(user_id, subscription_tier, endpoint_type)
GetRateLimitInfo(u, tier, e) ==
    /\ LET k == <<u, e>>
           limit_config == LimitConfig(tier, e)
       IN  IF ~redis \/ NoLimitConfig(tier, e)
           THEN /\ rlOp' = RlInfo(k, 0, "error")
                /\ UNCHANGED <<zsets, ttl>>
           ELSE LET max_requests == limit_config.requests
                    window_seconds == limit_config.window
                IN  IF strategy = SLIDING_WINDOW
                    THEN LET pruned == ZRemRangeByScore(ZLive(k), 0, clock - window_seconds)
                             current_count == Cardinality(pruned)
                         IN  /\ zsets' = [zsets EXCEPT ![k] = pruned]
                             /\ ttl' = [ttl EXCEPT ![k] = IF pruned = {} THEN 0 ELSE ttl[k]]
                             /\ rlOp' = RlInfo(k, Max(0, max_requests - current_count), "info")
                    ELSE IF strategy = FIXED_WINDOW
                    THEN LET key == FixedKey(k, WindowStart(clock, window_seconds))
                             current_count == FixedGet(fixed, key)
                         IN  /\ rlOp' = RlInfo(k, Max(0, max_requests - current_count), "info")
                             /\ UNCHANGED <<zsets, ttl>>
                    ELSE IF max_requests = 0
                    THEN /\ rlOp' = RlInfo(k, 0, "ZeroDivisionError")
                         /\ UNCHANGED <<zsets, ttl>>
                    ELSE LET current_tokens ==
                                 IF k \in DOMAIN buckets
                                 THEN NewTokens(buckets, k, clock, max_requests,
                                                window_seconds, decode)
                                 ELSE max_requests * window_seconds
                         IN  /\ rlOp' = RlInfo(k, current_tokens \div window_seconds, "info")
                             /\ UNCHANGED <<zsets, ttl>>
    /\ UNCHANGED <<clock, grants, limVars, delVars, appVars, concVars, schedVars>>

\* self.redis.keys(f"rate_limit:fixed:{user_id}:{endpoint_type}:*")
FixedKeysOf(f, k) == {key \in DOMAIN f : key[1] = k[1] /\ key[2] = k[2]}

\* reset_rate_limit with the pattern f"rate_limit:fixed:{user_id}:*": the
\* fixed-window counters of every endpoint of the user match
FixedKeysOfUser(f, k) == {key \in DOMAIN f : key[1] = k[1]}

ResetRateLimit_AnyEndpoint(u, e) ==
    /\ LET k == <<u, e>>
           keys == FixedKeysOfUser(fixed, k)
           deleted == (IF ZLive(k) # {} THEN 1 ELSE 0) + Cardinality(keys)
                      + (IF k \in DOMAIN buckets THEN 1 ELSE 0)
       IN  IF ~redis
           THEN /\ rlOp' = RlOp("reset", k, 0, "False", 0)
                /\ UNCHANGED <<zsets, ttl, fixed, buckets>>
           ELSE /\ zsets' = [zsets EXCEPT ![k] = {}]
                /\ ttl' = [ttl EXCEPT ![k] = 0]
                /\ fixed' = DictPop(fixed, keys)
                /\ buckets' = DictPop(buckets, {k})
                /\ rlOp' = RlOp("reset", k, 0, IF deleted > 0 THEN "True" ELSE "False", 0)
    /\ UNCHANGED <<clock, grants, strategy, redis, decode, delVars, appVars, concVars, schedVars>>

\* APILimiter.reset_rate_limit(user_id, endpoint_type)
ResetRateLimit(u, e) ==
    /\ LET k == <<u, e>>
           keys == FixedKeysOf(fixed, k)
           deleted == (IF ZLive(k) # {} THEN 1 ELSE 0) + Cardinality(keys)
                      + (IF k \in DOMAIN buckets THEN 1 ELSE 0)
       IN  IF ~redis
           THEN /\ rlOp' = RlOp("reset", k, 0, "False", 0)
                /\ UNCHANGED <<zsets, ttl, fixed, buckets>>
           ELSE /\ zsets' = [zsets EXCEPT ![k] = {}]
                /\ ttl' = [ttl EXCEPT ![k] = 0]
                /\ fixed' = DictPop(fixed, keys)
                /\ buckets' = DictPop(buckets, {k})
                /\ rlOp' = RlOp("reset", k, 0, IF deleted > 0 THEN "True" ELSE "False", 0)
    /\ UNCHANGED <<clock, grants, strategy, redis, decode, delVars, appVars, concVars, schedVars>>

\* What _check_sliding_window would answer for key k at instant t >= clock with
\* no call made in between, and the sorted set it would leave
SlidingVerdict(k, t, max_requests, window_seconds, w) ==
    LET live == IF t >= ttl[k] THEN {} ELSE zsets[k]
        pruned == ZRemRangeByScore(live, 0, t - window_seconds)
        denied == Cardinality(pruned) + w > max_requests
        left == pruned \ {Member(t, w)}
    IN  [result |-> IF denied THEN RateLimitError ELSE Allowed,
         retry_after |-> IF ~denied THEN 0
                         ELSE IF left # {} THEN OldestScore(left) + window_seconds - t
                         ELSE window_seconds,
         after |-> IF denied THEN left ELSE pruned \cup {Member(t, w)}]

\* the same for _check_fixed_window, with the counter it would leave
FixedVerdict(k, t, max_requests, window_seconds, w) ==
    LET window_start == WindowStart(t, window_seconds)
        current_count == FixedGet(Expire(fixed, t), FixedKey(k, window_start))
        denied == current_count + w > max_requests
    IN  [result |-> IF denied THEN RateLimitError ELSE Allowed,
         retry_after |-> IF denied THEN window_start + window_seconds - t ELSE 0,
         after |-> IF denied THEN current_count ELSE current_count + w]

\* the same for _check_token_bucket, with the token count it would leave
BucketVerdict(k, t, max_requests, window_seconds, w) ==
    LET new_tokens == NewTokens(Expire(buckets, t), k, t, max_requests,
                                window_seconds, decode)
        denied == new_tokens < w * window_seconds
    IN  [result |-> IF denied THEN RateLimitError ELSE Allowed,
         retry_after |-> IF denied
                         THEN (w * window_seconds - new_tokens) \div max_requests
                         ELSE 0,
         after |-> IF denied THEN new_tokens ELSE new_tokens - w * window_seconds]

\* the answer of check_rate_limit(k, "free", w) at instant t for an endpoint
\* with a quota, under the strategy in use
Verdict(k, w, t) ==
    LET limit_config == LimitConfig("free", k[2])
    IN  IF strategy = SLIDING_WINDOW
        THEN SlidingVerdict(k, t, limit_config.requests, limit_config.window, w)
        ELSE IF strategy = FIXED_WINDOW
        THEN FixedVerdict(k, t, limit_config.requests, limit_config.window, w)
        ELSE BucketVerdict(k, t, limit_config.requests, limit_config.window, w)

\* "remaining" as get_rate_limit_info would report it for key k under strategy
\* strat, for an endpoint with a quota
ReportedRemaining(k, strat) ==
    LET max_requests == LimitConfig("free", k[2]).requests
        window_seconds == LimitConfig("free", k[2]).window
    IN  IF strat = SLIDING_WINDOW
        THEN Max(0, max_requests
                    - Cardinality(ZRemRangeByScore(ZLive(k), 0, clock - window_seconds)))
        ELSE IF strat = FIXED_WINDOW
        THEN Max(0, max_requests
                    - FixedGet(fixed, FixedKey(k, WindowStart(clock, window_seconds))))
        ELSE (IF k \in DOMAIN buckets
              THEN NewTokens(buckets, k, clock, max_requests, window_seconds, decode)
              ELSE max_requests * window_seconds) \div window_seconds

\* APILimiter(redis_client, strategy): any strategy, a client or None. The
\* strategy is read only when there is a client, decode_responses only by the
\* token bucket.
InitLimiter ==
    /\ InitDel
    /\ InitStore
    /\ redis \in BOOLEAN
    /\ strategy \in (IF redis THEN RateLimitStrategy ELSE {SLIDING_WINDOW})
    /\ decode \in (IF strategy = TOKEN_BUCKET THEN BOOLEAN ELSE {TRUE})
    /\ InitConc
    /\ InitSched
    /\ InitApp

\* check_rate_limit calls of any weight for one user and endpoint, against a
\* configured Redis
InitQuota == InitLimiter /\ redis = TRUE

NextQuota ==
    \/ \E k \in RLKeys, w \in RequestWeights : CheckRateLimit(k[1], "free", k[2], w)
    \/ RLTick

SpecQuota == InitQuota /\ [][NextQuota]_vars

\* check_rate_limit and get_rate_limit_info for one user and endpoint
NextPeek ==
    \/ \E k \in RLKeys : CheckRateLimit(k[1], "free", k[2], 1)
    \/ \E k \in RLKeys : GetRateLimitInfo(k[1], "free", k[2])
    \/ RLTick

SpecPeek == InitQuota /\ [][NextPeek]_vars

\* check_rate_limit of one user on an endpoint with a quota and on one whose
\* quota is 0, with or without a Redis client
TierKeys == {<<"u1", "general_api">>, <<"u1", "ai_copilot">>}

NextTier ==
    \/ \E k \in TierKeys : CheckRateLimit(k[1], "free", k[2], 1)
    \/ RLTick

SpecTier == InitLimiter /\ [][NextTier]_vars

\* check_rate_limit of one user on two endpoints, and reset_rate_limit for
\* that user and for another one
ResetCallKeys == {<<"u1", "general_api">>, <<"u1", "auth">>}

ResetKeys == {<<"u1", "general_api">>, <<"u1", "auth">>, <<"u2", "general_api">>}

NextReset ==
    \/ \E k \in ResetCallKeys : CheckRateLimit(k[1], "free", k[2], 1)
    \/ \E k \in ResetKeys : ResetRateLimit(k[1], k[2])
    \/ RLTick

SpecReset == InitQuota /\ [][NextReset]_vars

----------------------------------------------------------------------------
(* Rate limiting: requests inside check_rate_limit at the same time.  Every  *)
(* Redis command, and every pipeline (sent as one MULTI/EXEC transaction), is *)
(* one step; what a request computes between two commands is part of the     *)
(* step of the command that follows it.                                      *)

Locals(k, w, t, v) == [key |-> k, weight |-> w, now |-> t, value |-> v]

\* _check_sliding_window up to pipe.execute(): prune, count, add, expire; the
\* call returns at once when the count leaves room
SlidingPipeline(p, k, max_requests, window_seconds, w) ==
    /\ pc[p] = "idle"
    /\ strategy = SLIDING_WINDOW
    /\ Len(grants) < MaxCalls
    /\ LET pruned == ZRemRangeByScore(ZLive(k), 0, clock - window_seconds)
           current_count == Cardinality(pruned)
       IN  /\ zsets' = [zsets EXCEPT ![k] = pruned \cup {Member(clock, w)}]
           /\ ttl' = [ttl EXCEPT ![k] = clock + window_seconds]
           /\ IF current_count + w > max_requests
              THEN /\ pc' = [pc EXCEPT ![p] = "zrem"]
                   /\ loc' = [loc EXCEPT ![p] = Locals(k, w, clock, window_seconds)]
                   /\ rlOp' = RlOp("pipeline", k, w, None, 0)
                   /\ grants' = grants
              ELSE /\ rlOp' = RlOp("sliding", k, w, Allowed, 0)
                   /\ grants' = Append(grants, <<k, clock, w>>)
                   /\ UNCHANGED <<pc, loc>>
    /\ UNCHANGED <<clock, limVars, delVars, appVars, schedVars>>

\* self.redis.zrem(key, request_id) of a request that is being denied
SlidingZrem(p) ==
    /\ pc[p] = "zrem"
    /\ LET k == loc[p].key
           left == ZLive(k) \ {Member(loc[p].now, loc[p].weight)}
       IN  /\ zsets' = [zsets EXCEPT ![k] = left]
           /\ ttl' = [ttl EXCEPT ![k] = IF left = {} THEN 0 ELSE ttl[k]]
           /\ rlOp' = RlOp("zrem", k, loc[p].weight, None, 0)
    /\ pc' = [pc EXCEPT ![p] = "zrange"]
    /\ UNCHANGED <<clock, grants, loc, limVars, delVars, appVars, schedVars>>

\* self.redis.zrange(key, 0, 0, withscores=True), then raise RateLimitError
SlidingRaise(p) ==
    /\ pc[p] = "zrange"
    /\ LET k == loc[p].key
           window_seconds == loc[p].value
           retry_after == IF ZLive(k) # {}
                          THEN OldestScore(ZLive(k)) + window_seconds - loc[p].now
                          ELSE window_seconds
       IN  rlOp' = RlOp("sliding", k, loc[p].weight, RateLimitError, retry_after)
    /\ pc' = [pc EXCEPT ![p] = "idle"]
    /\ loc' = [loc EXCEPT ![p] = None]
    /\ UNCHANGED <<clock, zsets, ttl, grants, limVars, delVars, appVars, schedVars>>

\* _check_fixed_window up to self.redis.get(key); the call raises at once when
\* the count read leaves no room
FixedRead(p, k, max_requests, window_seconds, w) ==
    /\ pc[p] = "idle"
    /\ strategy = FIXED_WINDOW
    /\ Len(grants) < MaxCalls
    /\ LET window_start == WindowStart(clock, window_seconds)
           current_count == FixedGet(fixed, FixedKey(k, window_start))
       IN  IF current_count + w > max_requests
           THEN /\ rlOp' = RlOp("fixed", k, w, RateLimitError,
                                window_start + window_seconds - clock)
                /\ UNCHANGED <<pc, loc>>
           ELSE /\ pc' = [pc EXCEPT ![p] = "incrby"]
                /\ loc' = [loc EXCEPT ![p] = Locals(k, w, clock, window_seconds)]
                /\ rlOp' = RlOp("get", k, w, None, 0)
    /\ UNCHANGED <<clock, zsets, ttl, grants, limVars, delVars, appVars, schedVars>>

\* the pipeline incrby(key, request_weight), expire(key, window_seconds) of the
\* request, on the key of the window it computed when it read the clock
FixedIncr(p) ==
    /\ pc[p] = "incrby"
    /\ LET k == loc[p].key
           window_seconds == loc[p].value
           key == FixedKey(k, WindowStart(loc[p].now, window_seconds))
       IN  /\ fixed' = DictSet(fixed, key, [n |-> FixedGet(fixed, key) + loc[p].weight,
                                            exp |-> clock + window_seconds])
           /\ rlOp' = RlOp("fixed", k, loc[p].weight, Allowed, 0)
           /\ grants' = Append(grants, <<k, loc[p].now, loc[p].weight>>)
    /\ pc' = [pc EXCEPT ![p] = "idle"]
    /\ loc' = [loc EXCEPT ![p] = None]
    /\ UNCHANGED <<clock, zsets, ttl, buckets, strategy, redis, decode,
                   delVars, appVars, schedVars>>

\* _check_token_bucket up to self.redis.hgetall(key); the call raises at once
\* when the tokens computed from what was read do not cover the weight
BucketRead(p, k, max_requests, window_seconds, w) ==
    /\ pc[p] = "idle"
    /\ strategy = TOKEN_BUCKET
    /\ Len(grants) < MaxCalls
    /\ LET new_tokens == NewTokens(buckets, k, clock, max_requests, window_seconds, decode)
       IN  IF new_tokens < w * window_seconds
           THEN /\ rlOp' = RlOp("bucket", k, w, RateLimitError,
                                (w * window_seconds - new_tokens) \div max_requests)
                /\ UNCHANGED <<pc, loc>>
           ELSE /\ pc' = [pc EXCEPT ![p] = "hset"]
                /\ loc' = [loc EXCEPT ![p] =
                             Locals(k, w, clock, [remaining_tokens |-> new_tokens - w * window_seconds,
                                                  window_seconds |-> window_seconds])]
                /\ rlOp' = RlOp("hgetall", k, w, None, 0)
    /\ UNCHANGED <<clock, zsets, ttl, grants, limVars, delVars, appVars, schedVars>>

\* the pipeline hset(key, {tokens, last_refill}), expire(key, 2 * window_seconds)
\* of the request, with the values it computed from its own read
BucketWrite(p) ==
    /\ pc[p] = "hset"
    /\ LET k == loc[p].key
       IN  /\ buckets' = DictSet(buckets, k,
                                 [tokens |-> loc[p].value.remaining_tokens,
                                  last_refill |-> loc[p].now,
                                  exp |-> clock + 2 * loc[p].value.window_seconds])
           /\ rlOp' = RlOp("bucket", k, loc[p].weight, Allowed, 0)
           /\ grants' = Append(grants, <<k, loc[p].now, loc[p].weight>>)
    /\ pc' = [pc EXCEPT ![p] = "idle"]
    /\ loc' = [loc EXCEPT ![p] = None]
    /\ UNCHANGED <<clock, zsets, ttl, fixed, strategy, redis, decode,
                   delVars, appVars, schedVars>>

\* a limiter over a client that returns bytes (the redis-py default), under any
\* of the strategies
InitConcurrent ==
    /\ InitDel
    /\ InitStore
    /\ redis = TRUE
    /\ strategy \in RateLimitStrategy
    /\ decode = FALSE
    /\ InitConc
    /\ InitSched
    /\ InitApp

NextConc ==
    \/ \E p \in Procs, k \in RLKeys : SlidingPipeline(p, k, LimitN, WindowW, 1)
    \/ \E p \in Procs : SlidingZrem(p)
    \/ \E p \in Procs : SlidingRaise(p)
    \/ \E p \in Procs, k \in RLKeys : FixedRead(p, k, LimitN, WindowW, 1)
    \/ \E p \in Procs : FixedIncr(p)
    \/ \E p \in Procs, k \in RLKeys : BucketRead(p, k, LimitN, WindowW, 1)
    \/ \E p \in Procs : BucketWrite(p)
    \/ RLTick

SpecConc == InitConcurrent /\ [][NextConc]_vars

----------------------------------------------------------------------------
(* Review scheduling *)

\* EbbinghausIntervals.INTERVALS
INTERVALS == <<1, 3, 7, 30>>

\* EbbinghausIntervals.get_all_review_dates(completion_date)
GetAllReviewDates(completion_date) ==
    [i \in 1..Len(INTERVALS) |-> completion_date + INTERVALS[i]]

\* ReviewSchedulerService._get_user_delivery_channels(user_prefs)
GetUserDeliveryChannels(user_prefs) ==
    IF ~user_prefs.exists THEN {EMAIL, IN_APP}
    ELSE (IF user_prefs.email_enabled THEN {EMAIL} ELSE {})
         \cup (IF user_prefs.push_enabled THEN {PUSH} ELSE {})
         \cup {IN_APP}

\* NotificationService._is_channel_enabled(user_prefs, channel)
IsChannelEnabled(user_prefs, channel) ==
    IF ~user_prefs.exists THEN TRUE
    ELSE IF channel = EMAIL THEN user_prefs.email_enabled
    ELSE IF channel = PUSH THEN user_prefs.push_enabled
    ELSE channel = IN_APP

\* NotificationService._get_queue_type(channel) and the key that
\* NotificationQueueService.enqueue_notification writes to: the delayed sorted
\* set when delay_seconds is not 0, the priority list otherwise
QueueKey(channel, delay) ==
    IF delay # 0 THEN "delayed_" \o channel \o "_queue"
    ELSE channel \o "_queue:priority_2"

\* ReviewSchedulerService._prepare_review_content: the metadata of the
\* reminder. An output is named by its updated_at.
ReviewContent(completion_date, interval_index) ==
    [output_id |-> completion_date, interval_index |-> interval_index]

\* NotificationQueueService.enqueue_notification: the payload, scheduled
\* delay after the instant of the call. The id, built from the instant of
\* the enqueue, is the rank n of the enqueue.
Payload(n, user_id, channel, scheduled_at, t, content) ==
    LET delay_seconds == Max(0, scheduled_at - t)
    IN  [id |-> n, user_id |-> user_id, channel |-> channel,
         key |-> QueueKey(channel, delay_seconds),
         scheduled_at |-> t + delay_seconds, content |-> content]

\* NotificationService._store_notification_history
HistoryRow(n, user_id, channel, scheduled_at) ==
    [n |-> n, user_id |-> user_id, delivery_channel |-> channel,
     scheduled_at |-> scheduled_at, status |-> "queued"]

\* the channels that schedule_notification enqueues for, in the order
\* email, push, in_app
ChannelSeq(user_prefs) ==
    SelectSeq(<<EMAIL, PUSH, IN_APP>>,
              LAMBDA c : c \in GetUserDeliveryChannels(user_prefs)
                         /\ IsChannelEnabled(user_prefs, c))

\* ReviewSchedulerService.schedule_reviews_for_output(user, output), with
\* output.updated_at = completion_date and the user's preferences row
ScheduleReviewsForOutput(user_id, completion_date, user_prefs) ==
    /\ Cardinality(history) < MaxQueued
    /\ completion_date <= today
    /\ IF user_prefs.exists /\ user_prefs.reminder_settings = "null"
       THEN /\ schedOp' = SchedOp("schedule", completion_date, user_prefs,
                                  "AttributeError", <<>>)
            /\ UNCHANGED <<queue, history>>
       ELSE IF user_prefs.exists /\ user_prefs.reminder_settings = "off"
       THEN /\ schedOp' = SchedOp("schedule", completion_date, user_prefs,
                                  "returned", <<>>)
            /\ UNCHANGED <<queue, history>>
       ELSE LET dates == GetAllReviewDates(completion_date)
                kept == {i \in DOMAIN dates : ~(dates[i] < today)}
                chans == ChannelSeq(user_prefs)
                first == Cardinality(history) + 1
                Rank(i, j) == first + Cardinality({x \in kept : x < i}) * Len(chans) + j - 1
                total == Cardinality(kept) * Len(chans)
            IN  /\ queue' = queue \cup
                       {Payload(Rank(i, j), user_id, chans[j], dates[i], today,
                                ReviewContent(completion_date, i - 1)) :
                          i \in kept, j \in DOMAIN chans}
                /\ history' = history \cup
                       {HistoryRow(Rank(i, j), user_id, chans[j], dates[i]) :
                          i \in kept, j \in DOMAIN chans}
                /\ schedOp' = SchedOp("schedule", completion_date, user_prefs, "returned",
                                      [n \in 1..total |-> first + n - 1])
    /\ UNCHANGED <<today, delVars, appVars, rlVars, limVars, concVars>>

SchedTick ==
    /\ today < MaxDay
    /\ today' = today + 1
    /\ schedOp' = SchedOp("tick", 0, NoPrefs, None, <<>>)
    /\ UNCHANGED <<queue, history, delVars, appVars, rlVars, limVars, concVars>>

\* batch_size of process_notifications
BatchSize == 10

\* the queue types that are processed
QueueTypes == {"email_queue", "in_app_queue"}

\* the rows that k calls of _update_notification_status update: each takes
\* the first row of the user that is still queued
FirstQueued(h, user_id, k) ==
    LET queued == {r \in h : r.user_id = user_id /\ r.status = "queued"}
    IN  {r \in queued : Cardinality({x \in queued : x.n < r.n}) < k}

\* NotificationService.process_notifications(queue_type): the ready delayed
\* notifications are moved to the immediate queue, then the queue is drained,
\* each notification is handed to its provider (ok: the provider sends it)
\* and _update_notification_status is called for it
ProcessNotifications(queue_type, ok) ==
    /\ LET ready == {p \in queue : /\ p.key = "delayed_" \o queue_type
                                    /\ p.scheduled_at <= today}
           batch == ready \cup {p \in queue : p.key = queue_type \o ":priority_2"}
           updated == FirstQueued(history, "u1", Cardinality(batch))
       IN  /\ Cardinality(batch) <= BatchSize
           /\ queue' = queue \ batch
           /\ sent' = IF ok THEN sent \cup {p.id : p \in batch} ELSE sent
           /\ history' = (history \ updated) \cup
                  {[r EXCEPT !.status = IF ok THEN "sent" ELSE "failed"] : r \in updated}
    /\ schedOp' = SchedOp("process", 0, NoPrefs, "returned", <<>>)
    /\ UNCHANGED <<today, delVars, rlVars, limVars, concVars, revVars, dqVars,
                   verVars>>

\* NotificationService.cancel_scheduled_notifications(user_id)
CancelScheduledNotifications(user_id) ==
    /\ history' = {IF r.user_id = user_id /\ r.status \in {"pending", "queued"}
                   THEN [r EXCEPT !.status = "cancelled"] ELSE r : r \in history}
    /\ schedOp' = SchedOp("cancel", 0, NoPrefs, "returned", <<>>)
    /\ UNCHANGED <<today, queue, delVars, appVars, rlVars, limVars, concVars>>

\* a user who has switched email and push off
InAppPrefs ==
    [exists |-> TRUE, email_enabled |-> FALSE, push_enabled |-> FALSE,
     reminder_settings |-> "unset"]

NextNotify ==
    \/ \E c \in Completions : ScheduleReviewsForOutput("u1", c, InAppPrefs)
    \/ \E q \in QueueTypes, ok \in BOOLEAN : ProcessNotifications(q, ok)
    \/ CancelScheduledNotifications("u1")
    \/ SchedTick

SpecNotify == Init /\ [][NextNotify]_vars

NextSched ==
    \/ \E c \in Completions, user_prefs \in UserPrefs :
          ScheduleReviewsForOutput("u1", c, user_prefs)
    \/ SchedTick

SpecSched == Init /\ [][NextSched]_vars

----------------------------------------------------------------------------
(* Review tracking *)

nonRevVars == <<delVars, rlVars, limVars, concVars, schedVars, dqVars, ntfVars,
                verVars>>

RECURSIVE SumSeq(_)
SumSeq(q) == IF q = <<>> THEN 0 ELSE Head(q) + SumSeq(Tail(q))

\* scores[a:b] of Python
Slice(q, a, b) == SubSeq(q, a + 1, b)

CalculateImprovementRate_LastMinusFirst(sessions) ==
    IF Len(sessions) < 2 THEN [num |-> 0, den |-> 1]
    ELSE [num |-> sessions[Len(sessions)] - sessions[1], den |-> 1]

\* ReviewProgressService._calculate_improvement_rate: the mean of the later
\* half minus the mean of the earlier half, as the fraction num / den
CalculateImprovementRate(sessions) ==
    IF Len(sessions) < 2 THEN [num |-> 0, den |-> 1]
    ELSE LET half == Len(sessions) \div 2
             first_half == Slice(sessions, 0, half)
             second_half == Slice(sessions, half, Len(sessions))
         IN  [num |-> SumSeq(second_half) * Len(first_half)
                      - SumSeq(first_half) * Len(second_half),
              den |-> Len(first_half) * Len(second_half)]

\* the band of ReviewProgressService._calculate_next_review_date
BandInterval(latest_score) ==
    IF latest_score >= 90 THEN 14
    ELSE IF latest_score >= 80 THEN 10
    ELSE IF latest_score >= 70 THEN 7
    ELSE IF latest_score >= 60 THEN 5
    ELSE 3

\* ReviewProgressService._calculate_next_review_date: interval_days
CalculateNextReviewDate(sessions, latest_score) ==
    LET interval_days == BandInterval(latest_score)
        avg_improvement == CalculateImprovementRate(sessions)
    IN  IF Len(sessions) >= 3 /\ avg_improvement.num > 5 * avg_improvement.den
        THEN Min(interval_days + 2, 14)
        ELSE IF Len(sessions) >= 3 /\ avg_improvement.num < (-5) * avg_improvement.den
        THEN Max(interval_days - 2, 3)
        ELSE interval_days

\* ReviewSchedulerService._calculate_next_adaptive_review: the interval
CalculateNextAdaptiveReview(review_history) ==
    LET recent_scores == Slice(review_history, Max(0, Len(review_history) - 3),
                               Len(review_history))
    IN  IF SumSeq(recent_scores) >= 80 * Len(recent_scores) THEN 14
        ELSE IF SumSeq(recent_scores) >= 60 * Len(recent_scores) THEN 7
        ELSE 3

\* ReviewProgressService.record_review_session with an empty scores dict:
\* the session is appended to output_data['review_sessions'], the commit
\* stamps updated_at (onupdate=func.now()), and the next review is computed
\* from the sessions including the new one
RecordReviewSession(completion_percentage) ==
    /\ Len(output.review_sessions) < MaxSessions
    /\ LET overall_score == completion_percentage
           sessions == Append(output.review_sessions, overall_score)
       IN  /\ output' = [output EXCEPT !.review_sessions = sessions,
                                       !.updated_at = today]
           /\ revOp' = RevOp("record", overall_score,
                             today + CalculateNextReviewDate(sessions, overall_score),
                             sessions, {}, {})
    /\ UNCHANGED <<rpc, rloc, nonRevVars>>

\* ReviewSchedulerService.process_review_completion
ProcessReviewCompletion(review_score) ==
    /\ Len(output.reviews) < MaxSessions
    /\ LET reviews == Append(output.reviews, review_score)
       IN  /\ output' = [output EXCEPT !.reviews = reviews, !.updated_at = today]
           /\ revOp' = RevOp("complete", review_score,
                             today + CalculateNextAdaptiveReview(reviews),
                             reviews, {}, {})
    /\ UNCHANGED <<rpc, rloc, nonRevVars>>

\* the review_info that get_user_review_schedule lists for an output row
PendingReview(o) ==
    LET review_dates == GetAllReviewDates(o.updated_at)
        completed_review_count == Len(o.reviews)
        pending == {i \in DOMAIN review_dates : ~(i - 1 < completed_review_count)}
    IN  IF pending = {} THEN {}
        ELSE LET i == CHOOSE x \in pending : \A y \in pending : x <= y
             IN  {[interval_index |-> i - 1, review_due |-> review_dates[i]]}

\* ReviewSchedulerService.get_user_review_schedule
GetUserReviewSchedule ==
    /\ revOp' = RevOp("schedule", 0, 0, <<>>,
                      {r \in PendingReview(output) : ~(r.review_due < today)},
                      {r \in PendingReview(output) : r.review_due < today})
    /\ UNCHANGED <<output, rpc, rloc, nonRevVars>>

ReviewTick ==
    /\ today < MaxReviewDay
    /\ today' = today + 1
    /\ revOp' = RevOp("tick", 0, 0, <<>>, {}, {})
    /\ UNCHANGED <<output, rpc, rloc, queue, history, schedOp,
                   delVars, rlVars, limVars, concVars, dqVars, ntfVars, verVars>>

\* sessions are recorded one after another at one instant
NextAdaptive ==
    \E c \in Scores : RecordReviewSession(c)

SpecAdaptive == Init /\ [][NextAdaptive]_vars

NextReview ==
    \/ \E c \in FewScores : RecordReviewSession(c)
    \/ \E c \in ReviewScores : ProcessReviewCompletion(c)
    \/ GetUserReviewSchedule
    \/ ReviewTick

SpecReview == Init /\ [][NextReview]_vars

\* POST /reviews/outputs/{output_id}/session, step by step, each request
\* with a Session of its own: the handler loads the row
LoadOutput(p) ==
    /\ rpc[p] = "idle"
    /\ Len(output.review_sessions) < MaxSessions
    /\ rpc' = [rpc EXCEPT ![p] = "loaded"]
    /\ rloc' = [rloc EXCEPT ![p] = output]
    /\ UNCHANGED <<output, revOp, nonRevVars>>

\* record_review_session appends to its copy of output_data, assigns it to
\* the row and commits: the UPDATE writes the whole JSON value
CommitSession(p, completion_percentage) ==
    /\ rpc[p] = "loaded"
    /\ LET overall_score == completion_percentage
           sessions == Append(rloc[p].review_sessions, overall_score)
           row == [rloc[p] EXCEPT !.review_sessions = sessions, !.updated_at = today]
       IN  /\ output' = row
           /\ rloc' = [rloc EXCEPT ![p] = row]
    /\ rpc' = [rpc EXCEPT ![p] = "committed"]
    /\ UNCHANGED <<revOp, nonRevVars>>

\* the rest of record_review_session works on its own output_data
ReturnSession(p) ==
    /\ rpc[p] = "committed"
    /\ LET sessions == rloc[p].review_sessions
           overall_score == sessions[Len(sessions)]
       IN  revOp' = RevOp("record", overall_score,
                          today + CalculateNextReviewDate(sessions, overall_score),
                          sessions, {}, {})
    /\ rpc' = [rpc EXCEPT ![p] = "idle"]
    /\ rloc' = [rloc EXCEPT ![p] = None]
    /\ UNCHANGED <<output, nonRevVars>>

NextReviewConc ==
    \E p \in Procs :
        \/ LoadOutput(p)
        \/ \E c \in FewScores : CommitSession(p, c)
        \/ ReturnSession(p)

SpecReviewConc == Init /\ [][NextReviewConc]_vars

----------------------------------------------------------------------------
(* Notification queue: the email queue at normal priority *)

nonDqVars == <<delVars, rlVars, limVars, concVars, revVars, ntfVars, verVars>>

\* NotificationQueueService.enqueue_notification(QueueType.EMAIL, ...): the
\* JSON payload, named by its id, goes to the delayed sorted set with the
\* score now + delay_seconds, or to the head of the list when the delay is 0
EnqueueNotification(delay_seconds) ==
    /\ enq < MaxNotifs
    /\ enq' = enq + 1
    /\ IF delay_seconds # 0
       THEN /\ delayed' = delayed \cup {[id |-> enq + 1, score |-> today + delay_seconds]}
            /\ UNCHANGED immediate
       ELSE /\ immediate' = <<enq + 1>> \o immediate
            /\ UNCHANGED delayed
    /\ UNCHANGED <<wpc, wloc, schedVars, nonDqVars>>

\* zrangebyscore(delay_queue_key, 0, current_time): the members in the
\* order of their scores, then of their payloads
RECURSIVE ZRangeByScore(_, _)
ZRangeByScore(z, t) ==
    LET ready == {m \in z : m.score <= t}
    IN  IF ready = {} THEN <<>>
        ELSE LET m == CHOOSE x \in ready :
                        \A y \in ready : x.score < y.score
                                          \/ (x.score = y.score /\ x.id <= y.id)
             IN  <<m.id>> \o ZRangeByScore(z \ {m}, t)

\* process_delayed_notifications: the ready notifications are read
ReadReady(p) ==
    /\ wpc[p] = "idle"
    /\ wloc' = [wloc EXCEPT ![p] = ZRangeByScore(delayed, today)]
    /\ wpc' = [wpc EXCEPT ![p] = IF wloc'[p] = <<>> THEN "idle" ELSE "lpush"]
    /\ UNCHANGED <<delayed, immediate, enq, schedVars, nonDqVars>>

\* lpush(queue_key, notification_json)
MoveLpush(p) ==
    /\ wpc[p] = "lpush"
    /\ immediate' = <<Head(wloc[p])>> \o immediate
    /\ wpc' = [wpc EXCEPT ![p] = "zrem"]
    /\ UNCHANGED <<delayed, enq, wloc, schedVars, nonDqVars>>

\* zrem(delay_queue_key, notification_json), then the next ready one
MoveZrem(p) ==
    /\ wpc[p] = "zrem"
    /\ delayed' = {m \in delayed : m.id # Head(wloc[p])}
    /\ wloc' = [wloc EXCEPT ![p] = Tail(wloc[p])]
    /\ wpc' = [wpc EXCEPT ![p] = IF wloc'[p] = <<>> THEN "idle" ELSE "lpush"]
    /\ UNCHANGED <<immediate, enq, schedVars, nonDqVars>>

QueueTick ==
    /\ today < MaxQueueDay
    /\ today' = today + 1
    /\ UNCHANGED <<queue, history, schedOp, dqVars, nonDqVars>>

NextQueue ==
    \/ \E d \in {0, 1} : EnqueueNotification(d)
    \/ \E p \in Procs : ReadReady(p) \/ MoveLpush(p) \/ MoveZrem(p)
    \/ QueueTick

SpecQueue == Init /\ [][NextQueue]_vars

----------------------------------------------------------------------------
(* Output versions: the rows of one output, named by their version_number.  *)
(* version_data and output_data are not represented.                         *)

nonVerVars == <<delVars, rlVars, limVars, concVars, schedVars, revVars, dqVars,
                ntfVars>>

KeepCount == 10

MaxVersion(vs) ==
    IF vs = {} THEN 0
    ELSE CHOOSE n \in {v.version_number : v \in vs} :
             \A v \in vs : v.version_number <= n

\* OutputVersionService._cleanup_old_versions: of the rows in descending
\* version_number, those after the first keep_count are deleted unless current
CleanupOldVersions(vs) ==
    LET versions_to_delete ==
            {v \in vs : Cardinality({w \in vs :
                            w.version_number > v.version_number}) >= KeepCount}
    IN  IF Cardinality(vs) > KeepCount
        THEN {v \in vs : ~(v \in versions_to_delete /\ ~v.is_current)}
        ELSE vs

\* OutputVersionService.create_version: the rows after the call
CreateVersion(vs, is_current) ==
    LET version_number == IF vs = {} THEN 1 ELSE MaxVersion(vs) + 1
        others == IF is_current
                  THEN {[v EXCEPT !.is_current = FALSE] : v \in vs}
                  ELSE vs
    IN  CleanupOldVersions(others \cup
            {[version_number |-> version_number, is_current |-> is_current]})

\* OutputService.create_output with auto_version left at its default
CreateOutput ==
    /\ ~created
    /\ created' = TRUE
    /\ versions' = CreateVersion(versions, TRUE)
    /\ verOp' = VerOp("create_output", "returned", MaxVersion(versions'))
    /\ UNCHANGED <<today, queue, history, schedOp, nonVerVars>>

\* OutputService.update_output: update_current_version changes version_data only
UpdateOutput(create_version) ==
    /\ create_version => MaxVersion(versions) < MaxVersionNumber
    /\ IF ~created
       THEN /\ verOp' = VerOp("update_output", "None", 0)
            /\ UNCHANGED versions
       ELSE /\ versions' = IF create_version THEN CreateVersion(versions, FALSE)
                           ELSE versions
            /\ verOp' = VerOp("update_output", "returned", 0)
    /\ UNCHANGED <<created, today, queue, history, schedOp, nonVerVars>>

\* POST /{output_id}/versions
CreateOutputVersion ==
    /\ MaxVersion(versions) < MaxVersionNumber
    /\ IF ~created
       THEN /\ verOp' = VerOp("create_version", "404", 0)
            /\ UNCHANGED versions
       ELSE /\ versions' = CreateVersion(versions, FALSE)
            /\ verOp' = VerOp("create_version", "returned", MaxVersion(versions'))
    /\ UNCHANGED <<created, today, queue, history, schedOp, nonVerVars>>

\* OutputVersionService.restore_version of the version numbered version_number.
\* When create_version has deleted the row of the version being restored, the
\* instance held by the call is no longer attached to the session: reading
\* version_data from it either raises (raises: nothing after create_version
\* runs) or yields the stale value, and `version.is_current = True` then
\* changes no row.
RestoreVersion(version_number, raises) ==
    /\ MaxVersion(versions) < MaxVersionNumber
    /\ IF ~(\E v \in versions : v.version_number = version_number) \/ ~created
       THEN /\ verOp' = VerOp("restore_version", "None", version_number)
            /\ UNCHANGED versions
       ELSE LET saved == CreateVersion(versions, FALSE)
                attached == \E v \in saved : v.version_number = version_number
            IN  IF ~attached /\ raises
                THEN /\ versions' = saved
                     /\ verOp' = VerOp("restore_version", "raised", version_number)
                ELSE /\ versions' =
                            {[v EXCEPT !.is_current =
                                  (v.version_number = version_number)] : v \in saved}
                     /\ verOp' = VerOp("restore_version", "returned", version_number)
    /\ UNCHANGED <<created, today, queue, history, schedOp, nonVerVars>>

NextVersions ==
    \/ CreateOutput
    \/ \E create_version \in BOOLEAN : UpdateOutput(create_version)
    \/ CreateOutputVersion
    \/ \E n \in 1..MaxVersionNumber, raises \in BOOLEAN : RestoreVersion(n, raises)

SpecVersions == Init /\ [][NextVersions]_vars

----------------------------------------------------------------------------
(* Properties of the staged account deletion *)

Stage(m) == MetaGet(m, "stage")

StageRank(st) ==
    CASE st = REQUESTED -> 0
      [] st = SOFT_DELETED -> 1
      [] st = ANONYMIZED -> 2
      [] st = HARD_DELETED -> 3
      [] OTHER -> 0 - 1

\* the user's rows in the tables hard deletion is to empty
OwnedOutputs(d, u) == {o \in d.user_outputs : o.user_id = u}

OwnedVersions(d, u) ==
    {v \in d.output_versions :
        \E o \in InitDb.user_outputs : o.id = v.output_id /\ o.user_id = u}

\* a request is active while it is neither cancelled nor hard-deleted
ActiveRequest(id) ==
    /\ id \in DOMAIN requests
    /\ id \notin cancelled
    /\ requests[id].stage # HARD_DELETED

ActiveRequestsOf(u) == {id \in DOMAIN requests : ActiveRequest(id) /\ requests[id].user_id = u}

\* C1: the stage marker of a deletion request only moves forward along
\* requested -> soft_deleted -> anonymized -> hard_deleted, and it becomes
\* cancelled only from requested or soft_deleted and only before
\* cancellable_until.
C1_StageMonotonic ==
    [][\A u \in UserIds :
        (/\ meta[u] # NoMeta
         /\ meta'[u] # NoMeta
         /\ meta'[u]["deletion_id"] = meta[u]["deletion_id"]
         /\ Stage(meta'[u]) # Stage(meta[u]))
        => IF Stage(meta'[u]) = CANCELLED
           THEN /\ Stage(meta[u]) \in {REQUESTED, SOFT_DELETED}
                /\ now < requests[meta[u]["deletion_id"]].cancellable_until
           ELSE /\ Stage(meta[u]) # CANCELLED
                /\ StageRank(Stage(meta[u])) < StageRank(Stage(meta'[u]))]_vars

\* C2: once cancel_deletion_request has succeeded for a request, a later run of
\* the anonymization step or of the hard-deletion step for that request changes
\* neither the stage marker nor any row of the database.
C2_CancelledIsTerminal ==
    [][(/\ lastOp'.op \in {"anonymize", "hard_delete"}
        /\ lastOp'.id \in cancelled)
       => (db' = db /\ meta' = meta)]_vars

\* C3: a cancel made after cancellable_until is rejected with the
\* deadline-passed error and leaves the user row and the stage marker unchanged.
C3_CancelAfterDeadlineRejected ==
    [][(/\ lastOp'.op = "cancel"
        /\ lastOp'.id \in DOMAIN requests
        /\ lastOp'.user = requests[lastOp'.id].user_id
        /\ now > requests[lastOp'.id].cancellable_until)
       => (/\ lastOp'.result = "Cancellation deadline has passed"
           /\ db' = db
           /\ meta' = meta)]_vars

\* C4: initiate followed immediately by cancel with the returned deletion id,
\* inside the cancellation window and with a working database, restores the
\* user (is_active, not is_deleted, deleted_at cleared) and sets the stage to
\* cancelled.
C4_InitiateThenCancelRestores ==
    [][(/\ lastCall.op = "initiate"
        /\ lastCall.result = "returned"
        /\ lastOp'.op = "cancel"
        /\ lastOp'.id = lastCall.id
        /\ lastOp'.user = lastCall.user
        /\ ~lastOp'.fault
        /\ now < requests[lastCall.id].cancellable_until)
       => (/\ lastOp'.result = "True"
           /\ db'.users[lastCall.user].is_active
           /\ ~db'.users[lastCall.user].is_deleted
           /\ db'.users[lastCall.user].deleted_at = <<>>
           /\ Stage(meta'[lastCall.user]) = CANCELLED)]_vars

\* C5: initiate is rejected, creating no request and changing no user state,
\* exactly when the user already has an active deletion request; so a user
\* never has two active requests.
C5_InitiateRejectedIffActive ==
    /\ [](\A u \in UserIds : Cardinality(ActiveRequestsOf(u)) <= 1)
    /\ [][(/\ lastOp'.op = "initiate"
           /\ UserExists(db, lastOp'.user))
          => /\ (lastOp'.result # "returned") <=> (ActiveRequestsOf(lastOp'.user) # {})
             /\ (lastOp'.result # "returned")
                   => (db' = db /\ meta' = meta /\ requests' = requests)]_vars

\* C6: whenever initiate returns a deletion request, the soft deletion has been
\* applied: the returned stage is soft_deleted and the user row is deactivated.
C6_InitiateReturnsSoftDeleted ==
    (lastOp.op = "initiate" /\ lastOp.result = "returned")
    => /\ requests[lastOp.id].stage = SOFT_DELETED
       /\ ~db.users[lastOp.user].is_active
       /\ db.users[lastOp.user].is_deleted
       /\ db.users[lastOp.user].deleted_at # <<>>

\* C7: a stage transition that fails part-way leaves the stage marker and the
\* data as they were and is reported to the caller as a failure.
C7_FailedTransitionLeavesStage ==
    [][(/\ lastOp'.op \in {"initiate", "anonymize", "hard_delete"}
        /\ lastOp'.id \in DOMAIN requests'
        /\ lastOp'.fault)
       => (/\ meta' = meta
           /\ db' = db
           /\ lastOp'.result # "returned")]_vars

\* C8: the anonymization step applies only from stage soft_deleted and the
\* hard-deletion step only from stage anonymized; from any other stage, an
\* already applied transition included, the step changes nothing.
C8_TransitionsGuarded ==
    [][/\ (lastOp'.op = "anonymize" /\ requests[lastOp'.id].stage # SOFT_DELETED)
            => (db' = db /\ meta' = meta /\ requests' = requests)
       /\ (lastOp'.op = "hard_delete" /\ requests[lastOp'.id].stage # ANONYMIZED)
            => (db' = db /\ meta' = meta /\ requests' = requests)]_vars

----------------------------------------------------------------------------
(* Properties of the sliding window *)

GrantsIn(k, from, to) ==
    {i \in DOMAIN grants : grants[i][1] = k /\ from <= grants[i][2] /\ grants[i][2] < to}

\* C10: with weight 1, at most LimitN calls for one user and endpoint are
\* allowed within any window of WindowW seconds.
C10_SlidingWindowAtMostN ==
    (\A i \in DOMAIN grants : grants[i][3] = 1)
    => \A k \in RLKeys, t \in 0..MaxClock :
          Cardinality(GrantsIn(k, t, t + WindowW)) <= LimitN

----------------------------------------------------------------------------
(* Properties of check_rate_limit under the three strategies *)

RECURSIVE SumWeights(_)
\* the total request_weight of the grants with the indices in S
SumWeights(S) ==
    IF S = {} THEN 0
    ELSE LET i == CHOOSE x \in S : TRUE
         IN  grants[i][3] + SumWeights(S \ {i})

\* the windows of the strategy in use: the fixed windows start at the
\* multiples of WindowW, the others at any instant
IsWindow(t) == strategy = FIXED_WINDOW => t = WindowStart(t, WindowW)

\* the most one window may grant: LimitN, and for the token bucket the full
\* bucket of LimitN together with the LimitN tokens that one window refills
WindowQuota == IF strategy = TOKEN_BUCKET THEN 2 * LimitN ELSE LimitN

\* C11: under each strategy and for calls of any weight, the total weight
\* granted to one user and endpoint within one window never exceeds the quota.
C11_TotalWeightWithinQuota ==
    \A k \in RLKeys, t \in 0..MaxClock :
        IsWindow(t) => SumWeights(GrantsIn(k, t, t + WindowW)) <= WindowQuota

\* the requests counted against the quota of k in the sorted set: the members
\* that are not older than the window
Counted(k) == ZRemRangeByScore(ZLive(k), 0, clock - WindowW)

\* C12: a check_rate_limit call that is denied consumes no quota: the counted
\* requests, the fixed-window counters and the buckets are the same after the
\* denial as before, so no granted entry is removed.
C12_DenialConsumesNothing ==
    [][rlOp'.result = RateLimitError
         => /\ \A k \in StoreKeys : Counted(k)' = Counted(k)
            /\ fixed' = fixed
            /\ buckets' = buckets]_vars

\* C16: token bucket of capacity LimitN: of the weight-1 requests made at one
\* instant at most LimitN are allowed, the next one being denied, and the
\* stored token count always lies between 0 and LimitN (kept multiplied by the
\* window).
C16_TokenBucketBurstAndRange ==
    strategy = TOKEN_BUCKET
        => /\ (\A i \in DOMAIN grants : grants[i][3] = 1)
                => \A k \in RLKeys, t \in 0..MaxClock :
                      Cardinality(GrantsIn(k, t, t + 1)) <= LimitN
           /\ \A k \in DOMAIN buckets :
                  0 <= buckets[k].tokens /\ buckets[k].tokens <= LimitN * WindowW

\* C17: fixed window, weight 1: once LimitN requests have been granted, the
\* first of them at time t, no further request is granted less than WindowW
\* seconds after t, and no request is denied more than WindowW seconds after t.
C17_FixedWindowStartsAtFirstGrant ==
    (strategy = FIXED_WINDOW /\ \A i \in DOMAIN grants : grants[i][3] = 1)
        => /\ Len(grants) > LimitN
                => grants[LimitN + 1][2] >= grants[1][2] + WindowW
           /\ (Len(grants) = LimitN /\ rlOp.op = "fixed" /\ rlOp.weight = 1
                 /\ rlOp.result = RateLimitError)
                => clock <= grants[1][2] + WindowW

\* C18: a denial for an exhausted quota carries a retry hint (RateLimitError
\* sets the Retry-After header only for a retry_after that is not 0), and the
\* same request made retry_after seconds later, no other request having been
\* made, is allowed.
C18_RetryAfterIsUsable ==
    (rlOp.op \in {"sliding", "fixed", "bucket"} /\ rlOp.result = RateLimitError)
        => /\ rlOp.retry_after > 0
           /\ Verdict(rlOp.key, rlOp.weight, clock + rlOp.retry_after).result = Allowed

----------------------------------------------------------------------------
(* Properties of get_rate_limit_info *)

\* C13 as claimed: get_rate_limit_info leaves the value of every key of the
\* store as it was.
C13_PeekLeavesEveryKey ==
    [][rlOp'.op = "info"
         => /\ \A k \in StoreKeys : ZLive(k)' = ZLive(k)
            /\ fixed' = fixed
            /\ buckets' = buckets]_vars

\* C13 as amended: get_rate_limit_info consumes no quota. The requests counted
\* in the sorted set, the fixed-window counters and the buckets are unchanged,
\* and check_rate_limit answers and leaves the store after the peek, now or at
\* any later instant, exactly as it would have without the peek.
C13_PeekConsumesNothing ==
    [][rlOp'.op = "info"
         => /\ \A k \in StoreKeys : Counted(k)' = Counted(k)
            /\ fixed' = fixed
            /\ buckets' = buckets
            /\ \A k \in RLKeys, w \in RequestWeights, t \in clock..MaxClock :
                   Verdict(k, w, t)' = Verdict(k, w, t)]_vars

\* a peek has just reported one request used although two were granted: the
\* first grant is older than the window and the key had not expired
C13_PeekAfterAgedGrant ==
    /\ rlOp.op = "info"
    /\ rlOp.result = "info"
    /\ strategy = SLIDING_WINDOW
    /\ Len(grants) = 2
    /\ grants[1][2] <= clock - WindowW
    /\ clock < grants[2][2] + WindowW
    /\ rlOp.remaining = LimitN - 1

----------------------------------------------------------------------------
(* Properties of check_rate_limit on an endpoint closed to the tier *)

\* C14: for an endpoint whose max_requests is 0 for the tier, check_rate_limit
\* never returns an allowed result, whatever the strategy and whether or not a
\* Redis client is configured.
C14_ZeroQuotaNeverAllowed ==
    (rlOp.op = "check" /\ LimitConfig("free", rlOp.key[2]).requests = 0)
        => rlOp.result # Allowed

----------------------------------------------------------------------------
(* Properties of concurrent check_rate_limit calls *)

\* no two granted calls read the same clock value
DistinctTimestamps ==
    \A i, j \in DOMAIN grants : i # j => grants[i][2] # grants[j][2]

\* C15: under every interleaving of concurrent check_rate_limit calls for one
\* user and endpoint, the calls granted within one window never exceed the
\* quota (stated for the strategies that read the counter with one command and
\* update it with another, and for calls that read pairwise distinct clock
\* values).
C15_ConcurrentGrantsWithinQuota ==
    (strategy # SLIDING_WINDOW /\ DistinctTimestamps)
        => \A k \in RLKeys, t \in 0..MaxClock :
              IsWindow(t) => Cardinality(GrantsIn(k, t, t + WindowW)) <= WindowQuota

----------------------------------------------------------------------------
(* Properties of reset_rate_limit *)

\* the entries of key k in the three representations
Entries(k) ==
    [sliding |-> ZLive(k),
     fixed |-> [key \in FixedKeysOf(fixed, k) |-> fixed[key]],
     bucket |-> IF k \in DOMAIN buckets THEN {buckets[k]} ELSE {}]

NoEntries == [sliding |-> {}, fixed |-> EmptyDict, bucket |-> {}]

\* C19: reset_rate_limit(user, endpoint) leaves no entry of that user and
\* endpoint in any of the three representations, so that right afterwards the
\* reported remaining quota is the whole quota and a request for the whole quota
\* is allowed under every strategy; the entries of every other user and of every
\* other endpoint are unchanged.
C19_ResetClearsOnlyItsKey ==
    [][rlOp'.op = "reset" => \A k \in ResetKeys :
          rlOp'.key = k
            => /\ Entries(k)' = NoEntries
               /\ \A strat \in RateLimitStrategy :
                      ReportedRemaining(k, strat)' = LimitN
               /\ SlidingVerdict(k, clock, LimitN, WindowW, LimitN)'.result = Allowed
               /\ FixedVerdict(k, clock, LimitN, WindowW, LimitN)'.result = Allowed
               /\ BucketVerdict(k, clock, LimitN, WindowW, LimitN)'.result = Allowed
               /\ \A other \in StoreKeys \ {k} :
                      Entries(other)' = Entries(other) /\ ttl'[other] = ttl[other]]_vars

\* a reset has just deleted the entries of one endpoint of a user while another
\* endpoint of that user still has entries
C19_ResetBesideOtherEntries ==
    /\ rlOp.op = "reset"
    /\ rlOp.result = "True"
    /\ \E other \in StoreKeys \ {rlOp.key} :
          other[1] = rlOp.key[1] /\ Entries(other) # NoEntries

\* C25: whenever get_deletion_status reports a deletion in progress, its
\* can_cancel flag is true exactly when cancel_deletion_request with the
\* reported deletion_id would be accepted at that instant.
C25_CanCancelAgreesWithCancel ==
    (lastOp.op = "status" /\ lastOp.result \in {"can_cancel", "cannot_cancel"}) =>
        ((lastOp.result = "can_cancel") <=> CancelAccepted(lastOp.user, lastOp.id))

\* C26: once the deletion request of a user has soft-deleted the account, a
\* POST /users/cancel-deletion/{deletion_id} by that user within the
\* cancellation window passes authentication and restores the account.
C26_CancelReachableThroughApi ==
    [][\A u \in UserIds, id \in DOMAIN requests :
         (/\ lastOp' = Op("api_cancel", u, id, lastOp'.result, FALSE)
          /\ UserExists(db, u)
          /\ db.users[u].is_deleted
          /\ requests[id].user_id = u
          /\ requests[id].stage = SOFT_DELETED
          /\ now <= requests[id].cancellable_until) =>
             /\ lastOp'.result = "cancelled"
             /\ db'.users[u].is_active
             /\ ~db'.users[u].is_deleted
      ]_vars

----------------------------------------------------------------------------
(* Properties of the review scheduler *)

\* the reminders of the user arrive on one channel and are not switched off
OneChannel(user_prefs) ==
    /\ Len(ChannelSeq(user_prefs)) = 1
    /\ user_prefs.reminder_settings # "off"

\* C20: for a user who gets reminders on one channel and has not switched
\* review reminders off, schedule_reviews_for_output enqueues reminders for
\* exactly the dates completion + 1, 3, 7 and 30 days that are still in the
\* future at the call, one reminder per such date, and returns one handle per
\* enqueued reminder; when all four dates are in the past it enqueues nothing
\* and writes nothing.
C20_OneReminderPerFutureDate ==
    [][(schedOp'.op = "schedule" /\ OneChannel(schedOp'.prefs)) =>
         LET added == queue' \ queue
             dates == {schedOp'.completion + INTERVALS[i] : i \in DOMAIN INTERVALS}
             at == {n.scheduled_at : n \in added}
         IN  /\ {d \in dates : d > today} \subseteq at
             /\ at \subseteq {d \in dates : d >= today}
             /\ \A d \in at : Cardinality({n \in added : n.scheduled_at = d}) = 1
             /\ schedOp'.result = "returned"
             /\ Len(schedOp'.notification_ids) = Cardinality(added)
             /\ (\A d \in dates : d < today) => (added = {} /\ history' = history)
      ]_vars

\* C21: scheduling the reviews of an output again leaves no reminder of the
\* same output, interval and channel queued twice.
C21_NoReminderQueuedTwice ==
    \A m, n \in queue :
        (/\ m.user_id = n.user_id
         /\ m.channel = n.channel
         /\ m.content = n.content) => m = n

\* C29: a notification whose history row is cancelled is not sent by a later
\* process_notifications run, and no cancelled row becomes sent.
C29_CancelledNeverDelivered ==
    [][/\ \A n \in sent' \ sent :
            \A r \in history : r.n = n => r.status # "cancelled"
       /\ \A r \in history : r.status = "cancelled" =>
            \E x \in history' : x.n = r.n /\ x.status = "cancelled"
      ]_vars

----------------------------------------------------------------------------
(* Properties of the review tracking *)

\* the sum of the scores at the positions I
SumAt(scores, I) == SumSeq([k \in 1..Len(scores) |-> IF k \in I THEN scores[k] ELSE 0])

\* three times the mean of the last three scores minus the mean of the
\* first three
TrailingThreeTrend(scores) ==
    SumAt(scores, (Len(scores) - 2)..Len(scores)) - SumAt(scores, 1..3)

\* the interval the policy gives: the band of the score, two days more
\* when rising, two days less when falling
PolicyInterval(score, rising, falling) ==
    LET band == IF score >= 90 THEN 14 ELSE IF score >= 80 THEN 10
                ELSE IF score >= 70 THEN 7 ELSE IF score >= 60 THEN 5 ELSE 3
    IN  IF rising THEN (IF band + 2 > 14 THEN 14 ELSE band + 2)
        ELSE IF falling THEN (IF band - 2 < 3 THEN 3 ELSE band - 2)
        ELSE band

\* C22 as stated: the interval computed when a session is recorded is the
\* band of the score, two days longer (at most 14) when the average of the
\* trailing three sessions has risen by more than 5 points, two days shorter
\* (at least 3) when it has fallen by more than 5, and lies within 3..14.
C22_TrailingThreeTrendInterval ==
    [][revOp'.op = "record" =>
         LET scores == revOp'.used
             interval == revOp'.next_review - today
             rising == Len(scores) >= 3 /\ TrailingThreeTrend(scores) > 15
             falling == Len(scores) >= 3 /\ TrailingThreeTrend(scores) < -15
         IN  /\ interval = PolicyInterval(revOp'.score, rising, falling)
             /\ interval \in 3..14
      ]_vars

\* the mean of the later half of the scores minus the mean of the earlier
\* half (the shorter one when the number is odd), times both lengths
LaterHalfGain(scores) ==
    LET h == Len(scores) \div 2
    IN  SumAt(scores, (h + 1)..Len(scores)) * h - SumAt(scores, 1..h) * (Len(scores) - h)

\* C22 amended: the interval is the band of the score, two days longer (at
\* most 14) when at least 3 sessions are recorded and the mean score of the
\* later half of the sessions exceeds the mean of the earlier half by more
\* than 5 points, two days shorter (at least 3) when it is lower by more
\* than 5, and lies within 3..14.
C22_HalvesTrendInterval ==
    [][revOp'.op = "record" =>
         LET scores == revOp'.used
             h == Len(scores) \div 2
             interval == revOp'.next_review - today
             rising == Len(scores) >= 3
                       /\ LaterHalfGain(scores) > 5 * h * (Len(scores) - h)
             falling == Len(scores) >= 3
                        /\ LaterHalfGain(scores) < (-5) * h * (Len(scores) - h)
         IN  /\ interval = PolicyInterval(revOp'.score, rising, falling)
             /\ interval \in 3..14
      ]_vars

\* a fourth session of score 75 was recorded and its interval of 7 days was
\* cut to 5
C22_IntervalAdjusted ==
    /\ revOp.op = "record"
    /\ Len(revOp.used) = 4
    /\ revOp.next_review - today = 5
    /\ revOp.score = 75

\* C23: the schedule lists at most one pending review of the output, the one
\* whose interval index is the number of reviews recorded for it (sessions
\* and completions alike), none once 4 are recorded, and lists it as overdue
\* exactly when its due date is before now.
C23_PendingIndexIsReviewCount ==
    revOp.op = "schedule" =>
        LET recorded == Len(output.review_sessions) + Len(output.reviews)
            listed == revOp.upcoming \cup revOp.overdue
        IN  /\ Cardinality(listed) <= 1
            /\ revOp.upcoming \cap revOp.overdue = {}
            /\ recorded >= Len(INTERVALS) => listed = {}
            /\ recorded < Len(INTERVALS) =>
                   \E r \in listed : r.interval_index = recorded
            /\ \A r \in listed : (r \in revOp.overdue) <=> (r.review_due < today)

\* C27: recording a review session or a review completion leaves the
\* completion timestamp that the scheduler reads unchanged, and with it the
\* review dates of the output.
C27_RecordingKeepsReviewDates ==
    [][revOp'.op \in {"record", "complete"} =>
         /\ output'.updated_at = output.updated_at
         /\ GetAllReviewDates(output'.updated_at) = GetAllReviewDates(output.updated_at)
      ]_vars

\* C24: concurrent record_review_session calls serialize: every commit
\* appends one session to the stored history, leaving the earlier entries as
\* they are, and the history the writer goes on to compute its interval from
\* is the stored one.
C24_CommitAppendsToStoredHistory ==
    [][\A p \in Procs :
         (rpc[p] = "loaded" /\ rpc'[p] = "committed") =>
             /\ Len(output'.review_sessions) = Len(output.review_sessions) + 1
             /\ SubSeq(output'.review_sessions, 1, Len(output.review_sessions))
                    = output.review_sessions
             /\ rloc'[p].review_sessions = output'.review_sessions
      ]_vars

----------------------------------------------------------------------------
(* Properties of the notification queue *)

\* C28: under every interleaving of the workers no enqueued notification is
\* lost and none is twice in the immediate queue.
C28_MovedExactlyOnce ==
    /\ \A n \in 1..enq :
          (\E m \in delayed : m.id = n) \/ (\E i \in DOMAIN immediate : immediate[i] = n)
    /\ \A i, j \in DOMAIN immediate : immediate[i] = immediate[j] => i = j

----------------------------------------------------------------------------
(* Properties of the output versions *)

CurrentVersions(vs) == {v.version_number : v \in {w \in vs : w.is_current}}

\* C30: after every create_output, update_output, create_version and
\* restore_version at most one stored version is current, the version that
\* was current before the call is still stored after it, and when
\* restore_version returns the output the restored version is stored and is
\* the one current version.
C30_RestoredVersionIsTheCurrentOne ==
    [][/\ Cardinality(CurrentVersions(versions')) <= 1
       /\ \A n \in CurrentVersions(versions) :
              \E v \in versions' : v.version_number = n
       /\ (verOp'.op = "restore_version" /\ verOp'.result = "returned")
              => CurrentVersions(versions') = {verOp'.version}]_vars

====
